---- MODULE Spec2Model ----
(***************************************************************************)
(* Model of the energy-conversion component of energysys_components        *)
(* (src/src/energysys_components/energy_conversion.py).                    *)
(*                                                                         *)
(* Numbers: the Python floats are modelled as exact rationals <<n, d>>     *)
(* (d > 0, gcd(n, d) = 1).  round(x, 6) is modelled by what it does: the   *)
(* nearest multiple of 10^-6, ties to even.                                *)
(***************************************************************************)
EXTENDS Integers, Sequences, FiniteSets, TLC

(***************************************************************************)
(* Exact rational arithmetic                                               *)
(***************************************************************************)
Abs(i) == IF i < 0 THEN -i ELSE i

RECURSIVE GCD(_, _)
GCD(a, b) == IF b = 0 THEN a ELSE GCD(b, a % b)

\* The operators below bind the values of their arguments (x \in {a}), so
\* that an argument is computed once however often the definition uses it.
Norm(n, d) ==
    CHOOSE r \in { IF x = 0 THEN <<0, 1>>
                   ELSE <<x \div GCD(Abs(x), y), y \div GCD(Abs(x), y)>> :
                     x \in {n}, y \in {d} } : TRUE

R(n, d) == Norm(n, d)
Zero == <<0, 1>>
One == <<1, 1>>

RAdd(a, b) ==
    CHOOSE r \in
      { IF x[1] = 0 THEN y
        ELSE IF y[1] = 0 THEN x
        ELSE LET g == GCD(x[2], y[2])
             IN  Norm(x[1] * (y[2] \div g) + y[1] * (x[2] \div g), (x[2] \div g) * y[2]) :
          x \in {a}, y \in {b} } : TRUE

RNeg(a) == CHOOSE r \in { <<-x[1], x[2]>> : x \in {a} } : TRUE
RSub(a, b) == RAdd(a, RNeg(b))

RMul(a, b) ==
    CHOOSE r \in
      { LET g1 == GCD(Abs(x[1]), y[2])
            g2 == GCD(Abs(y[1]), x[2])
        IN  IF x[1] = 0 \/ y[1] = 0 THEN Zero
            ELSE <<(x[1] \div g1) * (y[1] \div g2), (x[2] \div g2) * (y[2] \div g1)>> :
          x \in {a}, y \in {b} } : TRUE

\* 1/a; a = 0 is Python's ZeroDivisionError and stops the evaluation
RInv(a) ==
    CHOOSE r \in
      { IF x[1] < 0 THEN <<-x[2], -x[1]>> ELSE <<x[2], x[1] + 0 * (1 \div x[1])>> :
          x \in {a} } : TRUE
RDiv(a, b) == RMul(a, RInv(b))

RLt(a, b) ==
    \E x \in {a}, y \in {b} :
        LET g == GCD(x[2], y[2])
        IN  x[1] * (y[2] \div g) < y[1] * (x[2] \div g)
RLe(a, b) == \E x \in {a}, y \in {b} : x = y \/ RLt(x, y)
RGt(a, b) == RLt(b, a)
RGe(a, b) == RLe(b, a)
RMin(a, b) == CHOOSE r \in { IF RLt(y, x) THEN y ELSE x : x \in {a}, y \in {b} } : TRUE
RMax(a, b) == CHOOSE r \in { IF RGt(y, x) THEN y ELSE x : x \in {a}, y \in {b} } : TRUE
RAbs(a) == CHOOSE r \in { <<Abs(x[1]), x[2]>> : x \in {a} } : TRUE

\* decimal digits of r/d (0 <= r < d) by long division: <<digits as integer, remainder>>
RECURSIVE Digits(_, _, _, _)
Digits(r, d, k, acc) ==
    IF k = 0 THEN <<acc, r>>
    ELSE Digits((r * 10) % d, d, k - 1, acc * 10 + ((r * 10) \div d))

\* Python round(x, 6) for x >= 0
round6(x) ==
    LET q  == x[1] \div x[2]
        dg == Digits(x[1] % x[2], x[2], 6, 0)
        m  == dg[1]
        r  == dg[2]
        up == (2 * r > x[2]) \/ (2 * r = x[2] /\ m % 2 = 1)
    IN  Norm(q * 1000000 + m + (IF up THEN 1 ELSE 0), 1000000)

(***************************************************************************)
(* scipy.interpolate.interp1d(x, y, kind='linear', bounds_error=False,     *)
(* fill_value=(y[0], y[-1])): flat outside [x[0], x[-1]], linear between   *)
(* the two bracketing samples inside.                                      *)
(***************************************************************************)
\* numpy.searchsorted(xs, x, side='left'), clipped to [1, len-1] (0-based), as a 1-based index
RECURSIVE searchsorted(_, _, _)
searchsorted(xs, x, i) ==
    IF i >= Len(xs) THEN Len(xs)
    ELSE IF RGe(xs[i], x) THEN i
    ELSE searchsorted(xs, x, i + 1)

\* an interpolator that continues the outer segments linearly
interp1d_extrapolating(xs, ys, x) ==
    LET hi == searchsorted(xs, x, 2)
        lo == hi - 1
        slope == RDiv(RSub(ys[hi], ys[lo]), RSub(xs[hi], xs[lo]))
    IN  RAdd(RMul(slope, RSub(x, xs[lo])), ys[lo])

interp1d(xs, ys, x) ==
    IF RLt(x, xs[1]) THEN ys[1]
    ELSE IF RGt(x, xs[Len(xs)]) THEN ys[Len(ys)]
    ELSE LET hi == searchsorted(xs, x, 2)
             lo == hi - 1
             slope == RDiv(RSub(ys[hi], ys[lo]), RSub(xs[hi], xs[lo]))
         IN  RAdd(RMul(slope, RSub(x, xs[lo])), ys[lo])

\* index of the first maximum of a sequence: max(range(len(y)), key=y.__getitem__)
RECURSIVE argmax(_, _, _)
argmax(ys, i, best) ==
    IF i > Len(ys) THEN best
    ELSE argmax(ys, i + 1, IF RGt(ys[i], ys[best]) THEN i ELSE best)

Scale(xs, f) == [i \in 1..Len(xs) |-> RMul(xs[i], f)]

(***************************************************************************)
(* ECCParameter: the constructor arguments (raw) and __post_init__, which  *)
(* adds the derived fields.  The interpolators are functions of the sample *)
(* tables, which are kept in the record.                                   *)
(***************************************************************************)
eta_ip(p, x) == interp1d(p.eta[1], p.eta[2], x)
eta_kW_ip(p, x) == interp1d(Scale(p.eta[1], p.P_out_rated), p.eta[2], x)
eta_mc_ip(p, x) == interp1d(p.eta_mc[1], p.eta_mc[2], x)
eta_mc_kW_ip(p, x) == interp1d(Scale(p.eta_mc[1], p.P_out_rated), p.eta_mc[2], x)
E_loadchange_ip(p, x) == interp1d(p.E_loadchange[1], p.E_loadchange[2], x)

list_P_in_kW(p) ==
    [i \in 1..Len(p.eta[1]) |->
        RDiv(RMul(p.eta[1][i], p.P_out_rated), eta_ip(p, p.eta[1][i]))]
list_P_in_mc_kW(p) ==
    [i \in 1..Len(p.eta_mc[1]) |->
        RDiv(RMul(p.eta_mc[1][i], p.P_out_rated), eta_mc_ip(p, p.eta_mc[1][i]))]
eta_P_in_kW_ip(p, x) == interp1d(p.list_P_in_kW, p.eta[2], x)
eta_mc_P_in_mc_kW_ip(p, x) == interp1d(p.list_P_in_mc_kW, p.eta_mc[2], x)

ECCParameter(raw) ==
    LET E_start_heatup == RMul(raw.E_start, raw.eta_start)
        P_out_etamax_rel == raw.eta[1][argmax(raw.eta[2], 1, 1)]
        P_out_min == RMul(raw.P_out_min_rel, raw.P_out_rated)
        P_out_etamax == RMul(P_out_etamax_rel, raw.P_out_rated)
        split_sum == RAdd(raw.split_P_sd[1], raw.split_P_sd[2])
        derived ==
          [ E_start_heatup |-> E_start_heatup,
            E_start_loss |-> RSub(raw.E_start, E_start_heatup),
            list_P_in_kW |-> list_P_in_kW(raw),
            list_P_in_mc_kW |-> list_P_in_mc_kW(raw),
            P_out_etamax_rel |-> P_out_etamax_rel,
            P_out_min |-> P_out_min,
            P_out_etamax |-> P_out_etamax,
            P_in_min |-> RDiv(P_out_min, eta_ip(raw, raw.P_out_min_rel)),
            P_in_max |-> RDiv(raw.P_out_rated, eta_ip(raw, One)),
            P_in_etamax |-> RDiv(P_out_etamax, eta_ip(raw, P_out_etamax)),
            P_in_mc_min |-> RDiv(P_out_min, eta_mc_ip(raw, raw.P_out_min_rel)),
            P_in_mc_max |-> RDiv(raw.P_out_rated, eta_mc_ip(raw, One)),
            P_in_mc_etamax |-> RDiv(P_out_etamax, eta_mc_ip(raw, P_out_etamax_rel)),
            split_P_sd1 |-> RDiv(raw.split_P_sd[1], split_sum),
            split_P_sd2 |-> RDiv(raw.split_P_sd[2], split_sum) ]
    IN  raw @@ derived

(***************************************************************************)
(* ECCState and its default constructor ECCState()                         *)
(***************************************************************************)
ECCState0 ==
    [ P_in |-> Zero, E_in |-> Zero, P_in_mc |-> Zero, E_in_mc |-> Zero,
      P_in_sd1 |-> Zero, E_in_sd1 |-> Zero, P_in_sd2 |-> Zero, E_in_sd2 |-> Zero,
      P_out |-> Zero, E_out |-> Zero, P_loss |-> Zero, E_loss |-> Zero,
      P_heat |-> Zero, E_heat |-> Zero, heatup |-> Zero, eta |-> Zero,
      eta_mc |-> Zero, opex_Eur |-> Zero, E_balance |-> Zero ]

Hundred == <<100, 1>>
Sixty == <<60, 1>>
Two == <<2, 1>>
\* the operation time that replaces a computed 0 when heatup = 1
OpTimeEps == <<1, 100000>>
\* tolerance of the balance checks
tol == <<1, 100000>>

\* virtual relative output power of the previous state
P_out_rel_0_of(p, st) ==
    IF RLt(st.heatup, One)
    THEN round6(RMul(st.heatup, p.P_out_min_rel))
    ELSE round6(RDiv(st.P_out, p.P_out_rated))

(***************************************************************************)
(* _calc_P_change: new relative output power, heatup and operation time    *)
(***************************************************************************)
\* a heatup that is not limited to 1
heatup_unbounded(p, P_out_rel_1) == RDiv(P_out_rel_1, p.P_out_min_rel)

\* heatup = min(1, P_out_rel_1 / P_out_min_rel), and the operation time with
\* the replacement of a computed 0 when heatup = 1
heatup_of(p, P_out_rel_1) == RMin(One, RDiv(P_out_rel_1, p.P_out_min_rel))

P_change_result(p, P_out_rel_1, operation_time) ==
    [ P_out_rel_1 |-> P_out_rel_1,
      heatup |-> heatup_of(p, P_out_rel_1),
      operation_time |-> IF heatup_of(p, P_out_rel_1) = One /\ operation_time = Zero
                         THEN OpTimeEps ELSE operation_time ]

\* [S->O] with the whole timestep counted as operation time
ramp_up_crossing_full_step(p, t, P_out_rel_0, P_out_rel_targ) ==
    LET pmin == p.P_out_min_rel
        start_time == RMul(RDiv(RSub(pmin, P_out_rel_0), pmin), p.t_start)
    IN  IF RLe(start_time, t)
        THEN <<RMin(P_out_rel_targ,
                    RAdd(pmin, RMul(RDiv(p.p_change_pos, Hundred), t))), t>>
        ELSE <<RMin(P_out_rel_targ,
                    RAdd(P_out_rel_0, RMul(RDiv(t, p.t_start), pmin))), Zero>>

\* [S->O (potentially)]: the pair <<P_out_rel_1, operation_time>> of a ramp up
\* from below the minimum load to a target at or above it
ramp_up_crossing(p, t, P_out_rel_0, P_out_rel_targ) ==
    LET pmin == p.P_out_min_rel
        start_time == RMul(RDiv(RSub(pmin, P_out_rel_0), pmin), p.t_start)
    IN  IF RLe(start_time, t)
        THEN <<RMin(P_out_rel_targ,
                    RAdd(pmin, RMul(RDiv(p.p_change_pos, Hundred), RSub(t, start_time)))),
               RSub(t, start_time)>>
        ELSE <<RMin(P_out_rel_targ,
                    RAdd(P_out_rel_0, RMul(RDiv(t, p.t_start), pmin))), Zero>>

\* [O->S] with a cooldown that lasts the whole timestep
ramp_down_crossing_full_cooldown(p, t, P_out_rel_0, P_out_rel_targ) ==
    LET pmin == p.P_out_min_rel
        negRate == RDiv(p.p_change_neg, Hundred)
        unload_time == RDiv(RSub(P_out_rel_0, pmin), negRate)
    IN  IF RLt(unload_time, t)
        THEN <<RMax(P_out_rel_targ,
                    RMul(pmin, RSub(One, RDiv(t, p.t_cooldown)))),
               unload_time>>
        ELSE <<RMax(P_out_rel_targ, RSub(P_out_rel_0, RMul(negRate, t))), t>>

\* [O->S (potentially)]: the pair <<P_out_rel_1, operation_time>> of a ramp
\* down from the minimum load or above to a target below it
ramp_down_crossing(p, t, P_out_rel_0, P_out_rel_targ) ==
    LET pmin == p.P_out_min_rel
        negRate == RDiv(p.p_change_neg, Hundred)
        unload_time == RDiv(RSub(P_out_rel_0, pmin), negRate)
    IN  IF RLt(unload_time, t)
        THEN <<RMax(P_out_rel_targ,
                    RMul(pmin, RSub(One, RDiv(RSub(t, unload_time), p.t_cooldown)))),
               unload_time>>
        ELSE <<RMax(P_out_rel_targ, RSub(P_out_rel_0, RMul(negRate, t))), t>>

calc_P_change_from(p, t, P_out_rel_0, P_out_rel_targ) ==
    LET
        pmin == p.P_out_min_rel
        startRate == RMul(RDiv(t, p.t_start), pmin)
        posRate == RDiv(p.p_change_pos, Hundred)
        negRate == RDiv(p.p_change_neg, Hundred)
        r ==
          IF RLe(P_out_rel_0, P_out_rel_targ)
          THEN \* positive load changes and load holding
               IF RLt(P_out_rel_targ, pmin)
               THEN \* [S->S]
                    <<RMin(P_out_rel_targ, RAdd(P_out_rel_0, startRate)), Zero>>
               ELSE IF RLt(P_out_rel_0, pmin)
               THEN ramp_up_crossing(p, t, P_out_rel_0, P_out_rel_targ)
               ELSE \* [O->O]
                    <<RMin(P_out_rel_targ, RAdd(P_out_rel_0, RMul(posRate, t))), t>>
          ELSE \* negative load changes
               IF RGe(P_out_rel_targ, pmin)
               THEN \* [O->O]
                    <<RMax(P_out_rel_targ, RSub(P_out_rel_0, RMul(negRate, t))), t>>
               ELSE IF RGe(P_out_rel_0, pmin)
               THEN ramp_down_crossing(p, t, P_out_rel_0, P_out_rel_targ)
               ELSE \* [S->S]
                    <<RMax(P_out_rel_targ,
                           RSub(P_out_rel_0, RMul(RDiv(pmin, p.t_cooldown), t))),
                      Zero>>
    IN  P_change_result(p, r[1], r[2])

calc_P_change(p, t, st, P_out_rel_targ) ==
    calc_P_change_from(p, t, P_out_rel_0_of(p, st), P_out_rel_targ)

(***************************************************************************)
(* _calc_E_change: the energy and power flows of the transition.  The      *)
(* three branches of the source return the partial quantities (_op: load   *)
(* operation, _no: no-load operation); E_change sums them up.              *)
(***************************************************************************)
perHour(E, t) == RDiv(E, RDiv(t, Sixty))

\* [NL->NL], P_out_rel_1 >= P_out_rel_0
branch_NL_up(p, t, st, P_out_rel_1, P_out_rel_0, heatup_1) ==
    LET startRate == RMul(RDiv(t, p.t_start), p.P_out_min_rel)
        hold == RMul(RDiv(t, p.t_cooldown), p.E_start)
        P_out_rel_1_max == RAdd(P_out_rel_0, startRate)
        fact == RDiv(RSub(P_out_rel_1, P_out_rel_0), RSub(P_out_rel_1_max, P_out_rel_0))
        E_compens ==
          IF P_out_rel_1 = RAdd(P_out_rel_0, startRate) THEN Zero
          ELSE IF RLt(RSub(P_out_rel_1, startRate), Zero) THEN Zero
          ELSE IF P_out_rel_1 = P_out_rel_0 THEN hold
          ELSE RMul(fact, hold)
        E_compens_loss == RMul(RSub(One, p.eta_start), E_compens)
        E_startup == RMul(RSub(heatup_1, st.heatup), p.E_start)
        E_startup_loss == RMul(RSub(heatup_1, st.heatup), p.E_start_loss)
        E_in_no == RAdd(E_compens, E_startup)
        E_in_sd1_no == RMul(p.split_P_sd1, E_in_no)
        E_in_sd2_no == RMul(p.split_P_sd2, E_in_no)
        E_loss_no == RAdd(E_compens_loss, E_startup_loss)
    IN  [ E_in_mc_op |-> Zero, P_in_mc_op |-> Zero, E_out |-> Zero, P_out |-> Zero,
          E_in_op |-> Zero, E_in_no |-> E_in_no, P_in |-> perHour(E_in_no, t),
          E_in_sd1_op |-> Zero, E_in_sd2_op |-> Zero,
          E_in_sd1_no |-> E_in_sd1_no, E_in_sd2_no |-> E_in_sd2_no,
          P_in_sd1 |-> perHour(E_in_sd1_no, t), P_in_sd2 |-> perHour(E_in_sd2_no, t),
          E_loss_op |-> Zero, E_loss_no |-> E_loss_no, P_loss |-> perHour(E_loss_no, t) ]

\* [xx->NL] (towards) no-load operation, P_out_rel_1 < P_out_rel_0
branch_to_NL(p, t, st, P_out_rel_1, P_out_rel_0, operation_time) ==
    LET \* operation (_op) part, only when coming from load operation
        E_loadchange == RSub(E_loadchange_ip(p, p.P_out_min_rel),
                             E_loadchange_ip(p, P_out_rel_0))
        E_in_loadchange == RMax(Zero, E_loadchange)
        E_loss_op_loadchange == RAbs(RMin(Zero, E_loadchange))
        hours == RDiv(operation_time, Sixty)
        E_out_L == RMul(RDiv(RAdd(st.P_out, p.P_out_min), Two), hours)
        E_in_mc_op_L == RMul(RDiv(RAdd(st.P_in_mc, p.P_in_mc_min), Two), hours)
        E_in_op_wo_loadchange == RMul(RDiv(RAdd(st.P_in, p.P_in_min), Two), hours)
        E_in_op_L == RAdd(E_in_op_wo_loadchange, E_in_loadchange)
        E_in_sd_op_wo_loadchange == RSub(E_in_op_L, E_in_mc_op_L)
        E_in_sd_op == RAdd(E_in_sd_op_wo_loadchange, E_in_loadchange)
        E_loss_op_L == RAdd(RSub(E_in_op_wo_loadchange, E_out_L), E_loss_op_loadchange)
        fromLoad == st.heatup = One
        \* non-operational (_no) part
        cooldown_time == RSub(t, operation_time)
        P_out_no_rel_st == RMin(P_out_rel_0, p.P_out_min_rel)
        P_diff_no_rel_max ==
          RMin(RMul(RDiv(p.P_out_min_rel, p.t_cooldown), cooldown_time), P_out_no_rel_st)
        coast == RSub(P_out_no_rel_st, P_diff_no_rel_max)
        fact == RDiv(RSub(P_out_rel_1, coast), P_diff_no_rel_max)
        E_in_no ==
          IF RGt(P_out_rel_1, coast)
          THEN RMul(fact, RMul(RDiv(cooldown_time, p.t_cooldown), p.E_start))
          ELSE Zero
        E_in_sd1_no == RMul(p.split_P_sd1, E_in_no)
        E_in_sd2_no == RMul(p.split_P_sd2, E_in_no)
        E_loss_no ==
          RAdd(RMul(RMul(RDiv(cooldown_time, p.t_cooldown), p.E_start), p.eta_start),
               RMul(E_in_no, RSub(One, p.eta_start)))
    IN  [ E_in_mc_op |-> IF fromLoad THEN E_in_mc_op_L ELSE Zero,
          P_in_mc_op |-> Zero,
          E_out |-> IF fromLoad THEN E_out_L ELSE Zero,
          P_out |-> Zero,
          E_in_op |-> IF fromLoad THEN E_in_op_L ELSE Zero,
          E_in_no |-> E_in_no,
          P_in |-> perHour(E_in_no, cooldown_time),
          E_in_sd1_op |-> IF fromLoad THEN RMul(p.split_P_sd1, E_in_sd_op) ELSE Zero,
          E_in_sd2_op |-> IF fromLoad THEN RMul(p.split_P_sd2, E_in_sd_op) ELSE Zero,
          E_in_sd1_no |-> E_in_sd1_no, E_in_sd2_no |-> E_in_sd2_no,
          P_in_sd1 |-> perHour(E_in_sd1_no, cooldown_time),
          P_in_sd2 |-> perHour(E_in_sd2_no, cooldown_time),
          E_loss_op |-> IF fromLoad THEN E_loss_op_L ELSE Zero,
          E_loss_no |-> E_loss_no,
          P_loss |-> perHour(E_loss_no, cooldown_time) ]

\* [xx->L] (towards) load operation.  Line 707 of the source is an
\* assignment to E_in_op without a right-hand side; the value that is used
\* is the one assigned at line 715.
branch_to_L(p, t, st, P_out_rel_1, P_out_rel_0, heatup_1, operation_time, eta_1, eta_mc_1) ==
    LET \* heatup (_no) part
        fromNoLoad == RLt(st.heatup, One)
        E_in_no == IF fromNoLoad
                   THEN RMul(RSub(heatup_1, st.heatup), p.E_start)
                   ELSE Zero
        E_loss_no == RMul(E_in_no, RSub(One, p.eta_start))
        \* operation (_op) part with and without (wo) loadchange
        E_loadchange == RSub(E_loadchange_ip(p, P_out_rel_1),
                             E_loadchange_ip(p, P_out_rel_0))
        E_in_loadchange == RMax(Zero, E_loadchange)
        E_loss_op_loadchange == RAbs(RMin(Zero, E_loadchange))
        P_in_loadchange == perHour(E_in_loadchange, operation_time)
        hours == RDiv(operation_time, Sixty)
        P_out == RMul(p.P_out_rated, P_out_rel_1)
        E_out == RMul(RDiv(RAdd(RMax(st.P_out, p.P_out_min), P_out), Two), hours)
        P_in_mc_op == RDiv(P_out, eta_mc_1)
        E_in_mc_op ==
          RMul(RDiv(RAdd(RMax(st.P_in_mc, p.P_in_mc_min), P_in_mc_op), Two), hours)
        P_in_op_wo_loadchange == RDiv(P_out, eta_1)
        E_in_op_wo_loadchange ==
          RMul(RDiv(RAdd(RMax(st.P_in, p.P_in_min), P_in_op_wo_loadchange), Two), hours)
        E_in_sd_op_wo_loadchange == RSub(E_in_op_wo_loadchange, E_in_mc_op)
        E_in_sd_op == RAdd(E_in_sd_op_wo_loadchange, E_in_loadchange)
        P_in_sd_op_wo_loadchange == RSub(P_in_op_wo_loadchange, P_in_mc_op)
        P_loss_op_wo_loadchange == RSub(P_in_op_wo_loadchange, P_out)
    IN  [ E_in_mc_op |-> E_in_mc_op, P_in_mc_op |-> P_in_mc_op,
          E_out |-> E_out, P_out |-> P_out,
          E_in_op |-> RAdd(E_in_op_wo_loadchange, E_in_loadchange),
          E_in_no |-> E_in_no,
          P_in |-> RAdd(P_in_op_wo_loadchange, P_in_loadchange),
          E_in_sd1_op |-> RMul(p.split_P_sd1, E_in_sd_op),
          E_in_sd2_op |-> RMul(p.split_P_sd2, E_in_sd_op),
          E_in_sd1_no |-> RMul(p.split_P_sd1, E_in_no),
          E_in_sd2_no |-> RMul(p.split_P_sd2, E_in_no),
          P_in_sd1 |-> RAdd(RMul(P_in_sd_op_wo_loadchange, p.split_P_sd1),
                            RMul(p.split_P_sd1, P_in_loadchange)),
          P_in_sd2 |-> RAdd(RMul(P_in_sd_op_wo_loadchange, p.split_P_sd2),
                            RMul(p.split_P_sd2, P_in_loadchange)),
          E_loss_op |-> RAdd(RSub(E_in_op_wo_loadchange, E_out), E_loss_op_loadchange),
          E_loss_no |-> E_loss_no,
          P_loss |-> RAdd(P_loss_op_wo_loadchange, P_loss_op_wo_loadchange) ]

\* summation of the operation and non-operation portions of the branch
\* result b, and the balances
E_change_sum(p, st, P_out_rel_1, P_out_rel_0, heatup_1, b) ==
    LET E_in == RAdd(b.E_in_op, b.E_in_no)
        E_in_sd1 == RAdd(b.E_in_sd1_op, b.E_in_sd1_no)
        E_in_sd2 == RAdd(b.E_in_sd2_op, b.E_in_sd2_no)
        E_loss == RAdd(b.E_loss_op, b.E_loss_no)
        E_change_heatup == RMul(RSub(heatup_1, st.heatup), p.E_start_heatup)
        E_change_load ==
          RSub(E_loadchange_ip(p, RMax(p.P_out_min_rel, P_out_rel_1)),
               E_loadchange_ip(p, RMax(p.P_out_min_rel, P_out_rel_0)))
        E_balance ==
          RSub(RSub(RSub(RSub(RAdd(RAdd(b.E_in_mc_op, E_in_sd1), E_in_sd2),
                              E_change_heatup), E_change_load), b.E_out), E_loss)
    IN  [ E_balance |-> E_balance, E_in_mc |-> b.E_in_mc_op, E_in |-> E_in,
          E_in_sd1 |-> E_in_sd1, E_in_sd2 |-> E_in_sd2, E_loss |-> E_loss,
          E_out |-> b.E_out, P_in_mc |-> b.P_in_mc_op, P_in |-> b.P_in,
          P_in_sd1 |-> b.P_in_sd1, P_in_sd2 |-> b.P_in_sd2, P_loss |-> b.P_loss,
          P_out |-> b.P_out,
          E_heat |-> RMul(p.fact_P_heat_P_Loss, E_loss),
          P_heat |-> RMul(p.fact_P_heat_P_Loss, b.P_loss) ]

\* the energy calculation that takes the whole timestep of a step towards
\* no-load operation as cooldown
calc_E_change_whole_cooldown(p, t, st, P_out_rel_1, P_out_rel_0, heatup_1, operation_time, eta_1, eta_mc_1) ==
    E_change_sum(p, st, P_out_rel_1, P_out_rel_0, heatup_1,
        IF RLt(heatup_1, One) /\ RGe(P_out_rel_1, P_out_rel_0)
        THEN branch_NL_up(p, t, st, P_out_rel_1, P_out_rel_0, heatup_1)
        ELSE IF RLt(heatup_1, One) /\ RLt(P_out_rel_1, P_out_rel_0)
        THEN branch_to_NL(p, t, st, P_out_rel_1, P_out_rel_0, Zero)
        ELSE branch_to_L(p, t, st, P_out_rel_1, P_out_rel_0, heatup_1,
                         operation_time, eta_1, eta_mc_1))
\* the energy calculation that reports the virtual relative power as output
\* power in every regime
calc_E_change_virtual_power(p, t, st, P_out_rel_1, P_out_rel_0, heatup_1, operation_time, eta_1, eta_mc_1) ==
    [ E_change_sum(p, st, P_out_rel_1, P_out_rel_0, heatup_1,
        IF RLt(heatup_1, One) /\ RGe(P_out_rel_1, P_out_rel_0)
        THEN branch_NL_up(p, t, st, P_out_rel_1, P_out_rel_0, heatup_1)
        ELSE IF RLt(heatup_1, One) /\ RLt(P_out_rel_1, P_out_rel_0)
        THEN branch_to_NL(p, t, st, P_out_rel_1, P_out_rel_0, operation_time)
        ELSE branch_to_L(p, t, st, P_out_rel_1, P_out_rel_0, heatup_1,
                         operation_time, eta_1, eta_mc_1))
      EXCEPT !.P_out = RMul(p.P_out_rated, P_out_rel_1) ]
calc_E_change(p, t, st, P_out_rel_1, P_out_rel_0, heatup_1, operation_time, eta_1, eta_mc_1) ==
    \* b is the value of the branch that is taken
    CHOOSE state_1 \in
      { E_change_sum(p, st, P_out_rel_1, P_out_rel_0, heatup_1, b) :
          b \in { IF RLt(heatup_1, One) /\ RGe(P_out_rel_1, P_out_rel_0)
                  THEN branch_NL_up(p, t, st, P_out_rel_1, P_out_rel_0, heatup_1)
                  ELSE IF RLt(heatup_1, One) /\ RLt(P_out_rel_1, P_out_rel_0)
                  THEN branch_to_NL(p, t, st, P_out_rel_1, P_out_rel_0, operation_time)
                  ELSE branch_to_L(p, t, st, P_out_rel_1, P_out_rel_0, heatup_1,
                                   operation_time, eta_1, eta_mc_1) } } : TRUE

(***************************************************************************)
(* normalization.norm, normalization.denorm and the state computed by      *)
(* step_action                                                             *)
(***************************************************************************)
norm(val_r, n_min, n_max, r_min, r_max) ==
    RAdd(RDiv(RMul(RSub(n_max, n_min), RSub(val_r, r_min)), RSub(r_max, r_min)), n_min)

denorm(val_n, n_min, n_max, r_min, r_max) ==
    RAdd(RMul(RDiv(RSub(val_n, n_min), RSub(n_max, n_min)), RSub(r_max, r_min)), r_min)

\* a limiter that forgets the lower limit
clamp_upper_only(contr_val, contr_lim_min, contr_lim_max) ==
    IF RGt(contr_val, contr_lim_max) THEN contr_lim_max ELSE contr_val

\* limit the control value to [contr_lim_min, contr_lim_max]
clamp(contr_val, contr_lim_min, contr_lim_max) ==
    IF RGt(contr_val, contr_lim_max) THEN contr_lim_max
    ELSE IF RLt(contr_val, contr_lim_min) THEN contr_lim_min
    ELSE contr_val

P_out_targ_rel_of(contr_val, contr_lim_min, contr_lim_max) ==
    denorm(clamp(contr_val, contr_lim_min, contr_lim_max),
           contr_lim_min, contr_lim_max, Zero, One)

\* efficiencies of the new point, energy calculation and the new ECCState,
\* given the result pc of _calc_P_change
state_1_from(p, t, st, P_out_rel_0, pc) ==
    LET noLoad == RLt(pc.heatup, One)
    IN  CHOOSE state_1 \in
          { calc_E_change(p, t, st, pc.P_out_rel_1, P_out_rel_0, pc.heatup,
                          pc.operation_time, eta_1, eta_mc_1)
              @@ [ heatup |-> pc.heatup, eta |-> eta_1, eta_mc |-> eta_mc_1,
                   opex_Eur |-> Zero ] :
            eta_1 \in {IF noLoad THEN p.eta_start ELSE eta_ip(p, pc.P_out_rel_1)},
            eta_mc_1 \in {IF noLoad THEN One ELSE eta_mc_ip(p, pc.P_out_rel_1)} } : TRUE

\* state_1 of step_action for the control type "target"
state_1_of(p, t, st, contr_val, contr_lim_min, contr_lim_max) ==
    CHOOSE state_1 \in
      { state_1_from(p, t, st, P_out_rel_0, pc) :
          P_out_rel_0 \in {P_out_rel_0_of(p, st)},
          pc \in {calc_P_change(p, t, st,
                       P_out_targ_rel_of(contr_val, contr_lim_min, contr_lim_max))} } : TRUE

(***************************************************************************)
(* step_action: the pieces of the handler that decide what is raised,      *)
(* installed and returned                                                  *)
(***************************************************************************)
None == [kind |-> "none"]
Raise(msg) == [kind |-> "raise", msg |-> msg]
Value(v) == [kind |-> "value", val |-> v]
Returned(st) == [kind |-> "state", val |-> st]

\* a step that accepts every control type
contr_type_any(contr_type) == TRUE

\* only the control type "target" is implemented
contr_type_implemented(contr_type) == contr_type = "target"

\* a step that commits even when it is hypothetical
state_after_step_commits(hypothetical_step, st, state_1) == state_1

\* self.state after the step: replaced unless the step is hypothetical
state_after_step(hypothetical_step, st, state_1) ==
    IF ~hypothetical_step THEN state_1 ELSE st

\* return value of the step
return_of_step(hypothetical_step, state_1) ==
    IF ~hypothetical_step THEN None ELSE Returned(state_1)

(***************************************************************************)
(* step_action_stationary: the loop, the final step and the check of the   *)
(* iteration counter.  P_out_rel_actual is computed once before the loop.  *)
(* The result records the state, the counter, the number of step_action    *)
(* calls and whether the loop was left by its stationarity condition.      *)
(***************************************************************************)
\* one iteration of the loop from the state st: the state after step_action
\* and the new E_cond
loop_body(p, t, st, contr_val, E_cond) ==
    LET st1 == state_1_of(p, t, st, contr_val, Zero, One)
    IN  [state |-> st1, E_cond |-> (E_cond \/ st.E_in = st1.E_in)]

RECURSIVE stationary_loop(_, _, _, _, _, _, _, _)
stationary_loop(p, t, st, contr_val, reached, E_cond, ct_iteration, max_iterations) ==
    IF reached /\ E_cond
    THEN [state |-> st, ct_iteration |-> ct_iteration, by_condition |-> TRUE]
    ELSE IF ~(ct_iteration <= max_iterations)
    THEN [state |-> st, ct_iteration |-> ct_iteration, by_condition |-> FALSE]
    ELSE CHOOSE r \in
           { IF b.state = st /\ ~reached
             THEN \* st is a fixed point of the step and the condition cannot
                  \* become true: every remaining iteration repeats this one
                  \* and the loop ends by its counter
                  [state |-> st, ct_iteration |-> max_iterations + 1,
                   by_condition |-> FALSE]
             ELSE stationary_loop(p, t, b.state, contr_val, reached, b.E_cond,
                                  ct_iteration + 1, max_iterations) :
             b \in {loop_body(p, t, st, contr_val, E_cond)} } : TRUE

\* the counter value that raises "Target not reached."
RaiseAtIteration == 100

\* the final step and the check of the counter, given the result l of the loop
stationary_end(p, t, contr_val, l) ==
    [ state |-> state_1_of(p, t, l.state, contr_val, Zero, One),
      ct_iteration |-> l.ct_iteration,
      steps |-> l.ct_iteration + 1,
      by_condition |-> l.by_condition,
      ret |-> IF l.ct_iteration = RaiseAtIteration
              THEN Raise("Target not reached.") ELSE None ]

stationary(p, t, st, contr_val, max_iterations) ==
    LET P_out_rel_targ == denorm(contr_val, Zero, One, Zero, One)
        P_out_rel_actual == RDiv(st.P_out, p.P_out_rated)
    IN  CHOOSE r \in
          { stationary_end(p, t, contr_val, l) :
              l \in {stationary_loop(p, t, st, contr_val,
                                     P_out_rel_targ = P_out_rel_actual,
                                     FALSE, 0, max_iterations)} } : TRUE

(***************************************************************************)
(* The two lookups                                                         *)
(***************************************************************************)
P_in_mc_too_low(p, P_in_mc_target) == RLt(P_in_mc_target, p.P_in_mc_min)
\* an upper guard that rejects the end of the range
P_in_mc_too_high_at_end(p, P_in_mc_target) == RGe(P_in_mc_target, p.P_in_mc_max)

P_in_mc_too_high(p, P_in_mc_target) == RGt(P_in_mc_target, p.P_in_mc_max)

action_for_P_in_mc_target_ret(p, P_in_mc_target) ==
    IF P_in_mc_too_low(p, P_in_mc_target) THEN Raise("Input load too low for contr_val")
    ELSE IF P_in_mc_too_high(p, P_in_mc_target) THEN Raise("Input load too high for contr_val")
    ELSE Value(RDiv(RMul(P_in_mc_target, eta_mc_kW_ip(p, P_in_mc_target)), p.P_out_rated))

P_out_too_low(p, P_out) == RLt(P_out, p.P_out_min)
P_out_too_high(p, P_out) == RGt(P_out, p.P_out_rated)

P_in_mc_from_P_out_ret(p, P_out) ==
    IF P_out_too_low(p, P_out) THEN Raise("Output load too low for contr_val")
    ELSE IF P_out_too_high(p, P_out) THEN Raise("Output load too high for contr_val")
    ELSE Value(RDiv(P_out, eta_mc_kW_ip(p, P_out)))

\* a reset to the default state instead of the captured one
state_after_reset_default(st_initial) == ECCState0

\* reset(): the new self.state is a deep copy of self.state_initial
state_after_reset(st_initial) == st_initial

(***************************************************************************)
(* Bounds of the model: the parameter sets, the timestep and the inputs    *)
(***************************************************************************)
\* two components: "A" has a flat load-change curve, "B" one whose bulk
\* energy is not monotone in the load; the efficiency samples are not
\* uniformly spaced
RawA ==
    [ name |-> "A",
      t_start |-> R(4, 1), E_start |-> R(4, 1), eta_start |-> R(1, 2),
      P_out_rated |-> R(100, 1), P_out_min_rel |-> R(1, 5),
      p_change_pos |-> R(40, 1), p_change_neg |-> R(40, 1),
      E_loadchange |-> << <<R(0, 1), R(1, 1)>>, <<R(0, 1), R(0, 1)>> >>,
      eta |-> << <<R(1, 5), R(3, 5), R(1, 1)>>, <<R(1, 2), R(4, 5), R(3, 4)>> >>,
      eta_mc |-> << <<R(1, 5), R(1, 1)>>, <<R(4, 5), R(4, 5)>> >>,
      t_cooldown |-> R(2, 1),
      split_P_sd |-> <<R(1, 1), R(3, 1)>>,
      fact_P_heat_P_Loss |-> R(1, 2) ]

RawB ==
    [ RawA EXCEPT !.name = "B",
                  !.t_start = R(2, 1),
                  !.E_loadchange = << <<R(1, 5), R(2, 5), R(1, 1)>>,
                                      <<R(2, 1), R(1, 1), R(3, 1)>> >>,
                  !.eta_mc = << <<R(1, 5), R(3, 5), R(1, 1)>>,
                                <<R(4, 5), R(1, 1), R(4, 5)>> >> ]

ParSet == {ECCParameter(RawA), ECCParameter(RawB)}
TsSet == {R(1, 1)}

\* relative-power targets a caller asks for
Targets == {R(0, 1), R(1, 10), R(1, 5), R(2, 5), R(1, 1)}
\* how far outside the control limits a control value may lie
Excess == R(1, 2)
\* control limits <<contr_lim_min, contr_lim_max>>; <<0, 1>> is the default
DefaultLims == <<R(0, 1), R(1, 1)>>
ContrLims == {DefaultLims, <<R(-1, 1), R(1, 1)>>}
\* control values for given limits: the normalized targets, and one value
\* beyond each limit
ContrVals(lim) ==
    {norm(x, lim[1], lim[2], Zero, One) : x \in Targets}
      \cup {RAdd(lim[2], Excess), RSub(lim[1], Excess)}
ContrTypes == {"target", "change"}
\* iteration budgets of the stationary solver; 100 is the default
DefaultMaxIterations == 100
SmallMaxIterations == 2
MaxIterationsSet == {SmallMaxIterations, DefaultMaxIterations - 1, DefaultMaxIterations}
\* control values of the stationary solver
StationaryVals == {R(0, 1), R(1, 10), R(1, 1)}
\* arguments of the two lookups [kW]
LookupVals == {R(10, 1), R(20, 1), R(25, 1), R(60, 1), R(100, 1), R(125, 1), R(130, 1)}
\* number of full-power steps after which the warm construction state is taken
WarmSteps == 5

RECURSIVE steps_from(_, _, _, _, _)
steps_from(p, t, st, contr_val, k) ==
    IF k = 0 THEN st
    ELSE \* x is the value of the state after the step
         CHOOSE r \in { steps_from(p, t, x, contr_val, k - 1) :
                          x \in {state_1_of(p, t, st, contr_val, Zero, One)} } : TRUE

\* states a caller hands to the constructor: the default ECCState() and the
\* snapshot of a component that was run at full power
ConstructionStates(p, t) == {ECCState0, steps_from(p, t, ECCState0, One, WarmSteps)}

(***************************************************************************)
(* EnergyStorageComponent (energy_storage.py).  An ESCParameter object may *)
(* be shared by several components, so the parameter objects live in a     *)
(* heap and a component holds a reference.  A state object is never        *)
(* written in place (apply_control and reset_state install a new object),  *)
(* so states are values.                                                   *)
(***************************************************************************)
\* ESCState(): the defaults of the dataclass
ESCState0 ==
    [ P_in |-> Zero, E_in |-> Zero, P_out |-> Zero, E_out |-> Zero,
      P_loss |-> Zero, E_loss |-> Zero, SoC |-> One, E_cap_incr |-> Zero ]

\* the fields of ESCParameter that the component reads or writes
ESCParameter(eta, E_cap, autoIncrease) ==
    [ eta |-> eta, E_cap |-> E_cap, autoIncrease |-> autoIncrease ]

\* self.ts / 60 / 60, the timestep in hours
esc_hours(t) == RDiv(RDiv(t, Sixty), Sixty)

\* the flows of a call and the stored energy E_SoC_1 it leads to
esc_flows(p, t, st, E_req) ==
    LET E_SoC_0 == RMul(st.SoC, p.E_cap)
    IN  IF RLe(E_req, Zero)
        THEN [ E_SoC_1 |-> RAdd(E_SoC_0, E_req),
               E_out |-> RNeg(E_req), P_out |-> RDiv(RNeg(E_req), esc_hours(t)),
               E_in |-> Zero, P_in |-> Zero, E_loss |-> Zero, P_loss |-> Zero ]
        ELSE [ E_SoC_1 |-> RAdd(E_SoC_0, RMul(p.eta, E_req)),
               E_loss |-> RMul(RSub(One, p.eta), E_req),
               E_out |-> Zero, P_out |-> Zero,
               E_in |-> E_req, P_in |-> RDiv(E_req, esc_hours(t)),
               P_loss |-> RDiv(RMul(RSub(One, p.eta), E_req), esc_hours(t)) ]

\* a capacity update that never grows the capacity
esc_capacity_fixed(p, st, E_SoC_1) ==
    [ ok |-> TRUE, E_cap |-> p.E_cap, E_cap_incr |-> Zero, E_SoC_1 |-> E_SoC_1 ]

\* "If allowed and required, update capacity": ok is FALSE for "Battery overflow"
esc_capacity(p, st, E_SoC_1) ==
    IF RLt(E_SoC_1, Zero)
    THEN IF p.autoIncrease
         THEN [ ok |-> TRUE,
                E_cap |-> RAdd(p.E_cap, RNeg(E_SoC_1)),
                E_cap_incr |-> RAdd(st.E_cap_incr, RNeg(E_SoC_1)),
                E_SoC_1 |-> Zero ]
         ELSE [ ok |-> FALSE, E_cap |-> p.E_cap, E_cap_incr |-> st.E_cap_incr,
                E_SoC_1 |-> E_SoC_1 ]
    ELSE IF RGt(E_SoC_1, p.E_cap)
    THEN IF p.autoIncrease
         THEN [ ok |-> TRUE,
                E_cap |-> RAdd(p.E_cap, RSub(E_SoC_1, p.E_cap)),
                E_cap_incr |-> RAdd(st.E_cap_incr, RSub(E_SoC_1, p.E_cap)),
                E_SoC_1 |-> E_SoC_1 ]
         ELSE [ ok |-> FALSE, E_cap |-> p.E_cap, E_cap_incr |-> st.E_cap_incr,
                E_SoC_1 |-> E_SoC_1 ]
    ELSE [ ok |-> TRUE, E_cap |-> p.E_cap, E_cap_incr |-> Zero, E_SoC_1 |-> E_SoC_1 ]

\* apply_control: what it returns or raises, par.E_cap and self.state after it.
\* soc = E_SoC_1 / self.par.E_cap raises ZeroDivisionError for a capacity of 0.
apply_control_result(p, t, st, E_req) ==
    LET f == esc_flows(p, t, st, E_req)
        c == esc_capacity(p, st, f.E_SoC_1)
    IN  IF ~c.ok
        THEN [ ret |-> Raise("Battery overflow"), E_cap |-> p.E_cap, state |-> st ]
        ELSE IF c.E_cap = Zero
        THEN [ ret |-> Raise("ZeroDivisionError"), E_cap |-> c.E_cap, state |-> st ]
        ELSE [ ret |-> None, E_cap |-> c.E_cap,
               state |-> [ E_cap_incr |-> c.E_cap_incr,
                           E_in |-> f.E_in, E_out |-> f.E_out, E_loss |-> f.E_loss,
                           SoC |-> RDiv(c.E_SoC_1, c.E_cap),
                           P_in |-> f.P_in, P_loss |-> f.P_loss, P_out |-> f.P_out ] ]

\* reset_state: the capacity that reset_capacity=True installs
ResetCapacity == R(1, 1000)
esc_E_cap_after_reset(E_cap, reset_capacity) ==
    IF reset_capacity THEN ResetCapacity ELSE E_cap
\* reset_state: the new self.state is a deep copy of self.state_initial
esc_state_after_reset(st_initial) == st_initial

\* bounds of the storage model
EscEta == R(4, 5)
EscTs == R(10, 1)
EscCaps == {Zero, One}
EscSoCs == {One, Zero}
EscReqs == {R(-1, 1), Zero, R(2, 1)}
\* calls are made as long as the capacity is at most MaxCap
MaxCap == 3
\* two components and two parameter objects
Insts == {1, 2}
ParObjs == {1, 2}

(***************************************************************************)
(* State of one EnergyConversionComponent and of its caller                *)
(***************************************************************************)
VARIABLES
    par,            \* self.par
    ts,             \* self.ts
    state,          \* self.state
    state_initial,  \* self.state_initial
    arg_state,      \* the caller's state object that was passed to __init__
    aliased,        \* self.state is still that object
    constructed,    \* history: the value of the state object at construction
    call,           \* history: the last call and its arguments
    ret,            \* what the last call returned or raised
    obs,            \* history: internal values of the last call
    esc_par,        \* the ESCParameter objects
    esc,            \* the storage components: par (a reference), ts, state, state_initial
    esc_constructed, \* history: E_cap and state of each storage component at construction
    esc_call,       \* history: the last call to a storage component
    esc_ret         \* what that call returned or raised

ecc_vars == <<par, ts, state, state_initial, arg_state, aliased, constructed, call, ret, obs>>
esc_vars == <<esc_par, esc, esc_constructed, esc_call, esc_ret>>
vars == <<ecc_vars, esc_vars>>

EscNoCall == [ op |-> "__init__", inst |-> 1, E_req |-> Zero, reset_capacity |-> FALSE ]

\* storage components constructed with the parameter objects pars, component
\* 2 with the object o2, and the initial state st
EscConstructed(pars, o2, st) ==
    /\ esc_par = pars
    /\ esc = [ i \in Insts |->
                [ par |-> IF i = 1 THEN 1 ELSE o2, ts |-> EscTs,
                  state |-> st, state_initial |-> st ] ]
    /\ esc_constructed = [ i \in Insts |->
                [ E_cap |-> pars[IF i = 1 THEN 1 ELSE o2].E_cap, state |-> st ] ]
    /\ esc_call = EscNoCall
    /\ esc_ret = None

\* the storage components while only the conversion component is used
EscIdle == EscConstructed([o \in ParObjs |-> ESCParameter(EscEta, One, TRUE)], 2, ESCState0)

NoCall ==
    [ op |-> "__init__", contr_val |-> Zero, hypothetical_step |-> FALSE,
      contr_type |-> "target", contr_lim_min |-> Zero, contr_lim_max |-> One,
      max_iterations |-> 0, arg |-> Zero ]
NoObs == [ P_out_targ_rel |-> Zero, ct_iteration |-> 0, steps |-> 0, by_condition |-> FALSE ]

\* __init__(par, ts, state)
Init ==
    /\ par \in ParSet
    /\ ts \in TsSet
    /\ arg_state \in ConstructionStates(par, ts)
    /\ state_initial = arg_state
    /\ state = arg_state
    /\ aliased = TRUE
    /\ constructed = arg_state
    /\ call = NoCall
    /\ ret = None
    /\ obs = NoObs
    /\ EscIdle

step_action(contr_val, hypothetical_step, contr_type, contr_lim_min, contr_lim_max) ==
    LET c == [NoCall EXCEPT !.op = "step_action", !.contr_val = contr_val,
                            !.hypothetical_step = hypothetical_step,
                            !.contr_type = contr_type,
                            !.contr_lim_min = contr_lim_min,
                            !.contr_lim_max = contr_lim_max]
        state_1 == state_1_of(par, ts, state, contr_val, contr_lim_min, contr_lim_max)
    IN  /\ call' = c
        /\ IF ~contr_type_implemented(contr_type)
           THEN /\ ret' = Raise("No up-to-date implementation of this contr_val type.")
                /\ obs' = NoObs
                /\ UNCHANGED <<state, aliased>>
           ELSE /\ state' = state_after_step(hypothetical_step, state, state_1)
                /\ aliased' = (aliased /\ hypothetical_step)
                /\ ret' = return_of_step(hypothetical_step, state_1)
                /\ obs' = [NoObs EXCEPT !.P_out_targ_rel =
                             P_out_targ_rel_of(contr_val, contr_lim_min, contr_lim_max)]
        /\ UNCHANGED <<esc_vars, par, ts, state_initial, arg_state, constructed>>

\* the effect of step_action_stationary, given its result r
stationary_effect(contr_val, max_iterations, r) ==
    /\ call' = [NoCall EXCEPT !.op = "step_action_stationary",
                              !.contr_val = contr_val,
                              !.max_iterations = max_iterations]
    /\ state' = r.state
    /\ aliased' = FALSE
    /\ ret' = r.ret
    /\ obs' = [NoObs EXCEPT !.ct_iteration = r.ct_iteration, !.steps = r.steps,
                            !.by_condition = r.by_condition]
    /\ UNCHANGED <<esc_vars, par, ts, state_initial, arg_state, constructed>>

step_action_stationary(contr_val, max_iterations) ==
    stationary_effect(contr_val, max_iterations,
                      stationary(par, ts, state, contr_val, max_iterations))

action_for_P_in_mc_target(P_in_mc_target) ==
    /\ call' = [NoCall EXCEPT !.op = "action_for_P_in_mc_target", !.arg = P_in_mc_target]
    /\ ret' = action_for_P_in_mc_target_ret(par, P_in_mc_target)
    /\ obs' = NoObs
    /\ UNCHANGED <<esc_vars, par, ts, state, state_initial, arg_state, aliased, constructed>>

P_in_mc_from_P_out(P_out) ==
    /\ call' = [NoCall EXCEPT !.op = "P_in_mc_from_P_out", !.arg = P_out]
    /\ ret' = P_in_mc_from_P_out_ret(par, P_out)
    /\ obs' = NoObs
    /\ UNCHANGED <<esc_vars, par, ts, state, state_initial, arg_state, aliased, constructed>>

reset ==
    /\ call' = [NoCall EXCEPT !.op = "reset"]
    /\ state' = state_after_reset(state_initial)
    /\ aliased' = FALSE
    /\ ret' = None
    /\ obs' = NoObs
    /\ UNCHANGED <<esc_vars, par, ts, state_initial, arg_state, constructed>>

\* the caller writes to the state object it passed to the constructor;
\* self.state changes with it as long as it is that object
caller_mutates ==
    /\ \E st \in ConstructionStates(par, ts) \ {arg_state} :
         /\ arg_state' = st
         /\ state' = IF aliased THEN st ELSE state
    /\ call' = [NoCall EXCEPT !.op = "caller_mutates"]
    /\ ret' = None
    /\ obs' = NoObs
    /\ UNCHANGED <<esc_vars, par, ts, state_initial, aliased, constructed>>

(***************************************************************************)
(* Specifications.  Every operation composes step_action calls with the    *)
(* default control limits, so the component states reachable under each of *)
(* the specifications below are states of Spec.                            *)
(***************************************************************************)
\* a step with the default control type and limits
DefaultStep(hypothetical_step) ==
    \E v \in ContrVals(DefaultLims) :
        step_action(v, hypothetical_step, "target", DefaultLims[1], DefaultLims[2])
CommitStep == DefaultStep(FALSE)
HypotheticalStep == DefaultStep(TRUE)

StepTarget == \E lim \in ContrLims, h \in BOOLEAN : \E v \in ContrVals(lim) :
                  step_action(v, h, "target", lim[1], lim[2])
StepOtherType == \E ct \in ContrTypes \ {"target"}, h \in BOOLEAN :
                  step_action(One, h, ct, DefaultLims[1], DefaultLims[2])
Stationary == \E v \in StationaryVals, m \in MaxIterationsSet :
                  step_action_stationary(v, m)
LookupInverse == \E x \in LookupVals : action_for_P_in_mc_target(x)
LookupForward == \E x \in LookupVals : P_in_mc_from_P_out(x)

Next ==
    \/ StepTarget
    \/ StepOtherType
    \/ Stationary
    \/ LookupInverse
    \/ LookupForward
    \/ reset

Spec == Init /\ [][Next]_vars

\* control steps and reset
NextStep == StepTarget \/ StepOtherType \/ reset
SpecStep == Init /\ [][NextStep]_vars

\* the component together with a caller that keeps writing to its state object
NextCaller == CommitStep \/ HypotheticalStep \/ reset \/ caller_mutates
SpecCaller == Init /\ [][NextCaller]_vars

\* the stationary solver between committing steps
NextStationary == CommitStep \/ Stationary
SpecStationary == Init /\ [][NextStationary]_vars

\* the lookups between committing steps
NextLookup == CommitStep \/ LookupInverse \/ LookupForward
SpecLookup == Init /\ [][NextLookup]_vars

\* control steps with values in [0, 1] under the default limits, from the
\* cold initial state
InitCold == Init /\ constructed = ECCState0
UnitStep == \E v \in Targets, h \in BOOLEAN :
                step_action(v, h, "target", DefaultLims[1], DefaultLims[2])
SpecCold == InitCold /\ [][UnitStep]_vars

(***************************************************************************)
(* Properties                                                              *)
(***************************************************************************)
Within(x, eps) == RLe(RAbs(x), eps)
Below(x, eps) == RLt(RAbs(x), eps)

\* C1: balance invariant -- in every state reached from the cold initial
\* state by control steps with values in [0, 1], and in every state such a
\* step returns, the residual E_balance of the energy conservation check is
\* below the tolerance: |E_balance| < tol.
C1_BalanceInvariant ==
    /\ Below(state.E_balance, tol)
    /\ ret.kind = "state" => Below(ret.val.E_balance, tol)

SplitHolds(st) ==
    /\ Within(RSub(st.E_in, RAdd(RAdd(st.E_in_mc, st.E_in_sd1), st.E_in_sd2)), tol)
    /\ Within(RSub(st.P_in, RAdd(RAdd(st.P_in_mc, st.P_in_sd1), st.P_in_sd2)), tol)

\* C2: split invariant -- in every state produced by a control step
\* (installed, or returned by a hypothetical step) the total input equals
\* the sum of its three portions within the tolerance, for the energies
\* and for the powers.
C2_SplitInvariant ==
    /\ SplitHolds(state)
    /\ ret.kind = "state" => SplitHolds(ret.val)

IsStep(c) == c.op = "step_action" /\ c.contr_type = "target"
SameControl(c, d) ==
    /\ c.contr_val = d.contr_val
    /\ c.contr_lim_min = d.contr_lim_min
    /\ c.contr_lim_max = d.contr_lim_max

\* C3: a hypothetical step returns the computed state and leaves self.state,
\* self.state_initial and self.par unchanged; a committing step returns
\* nothing and installs a new snapshot; and the state a hypothetical step
\* returned is the state that the committing step with the same control
\* value, taken next from the same state, installs.
C3_HypotheticalStep ==
    [][ /\ (IsStep(call') /\ call'.hypothetical_step) =>
              /\ ret'.kind = "state"
              /\ state' = state
              /\ state_initial' = state_initial
              /\ par' = par
        /\ (IsStep(call') /\ ~call'.hypothetical_step) =>
              /\ ret' = None
              /\ ~aliased'
              /\ (IsStep(call) /\ call.hypothetical_step /\ SameControl(call, call'))
                    => state' = ret.val
      ]_vars
\* a hypothetical step whose result differs from the current state
C3_Witness ==
    /\ IsStep(call) /\ call.hypothetical_step
    /\ ret.kind = "state" /\ ret.val # state
    /\ state # constructed

\* C4: reset() makes self.state equal to the state captured at construction,
\* whatever steps were taken and whatever the caller wrote to the state
\* object it passed to the constructor; a second reset() changes nothing.
C4_ResetRoundTrip ==
    [][ call'.op = "reset" =>
          /\ state' = constructed
          /\ call.op = "reset" => state' = state
      ]_vars
\* a reset after the caller changed its state object
C4_Witness ==
    /\ call.op = "reset"
    /\ arg_state # constructed
    /\ constructed # ECCState0
    /\ state = constructed

\* C5: the stationary solver raises exactly when its loop ended by the
\* iteration budget and not by the stationarity condition, and when it
\* returns normally the state has reached the target.
C5_StationaryRaisesWhenExhausted ==
    call.op = "step_action_stationary" =>
        /\ (ret.kind = "raise") <=> ~obs.by_condition
        /\ ret.kind = "none" => RDiv(state.P_out, par.P_out_rated) = call.contr_val

\* C6: after step_action_stationary(v) returned without error, one further
\* committing step with the same control value leaves P_out and E_in
\* unchanged.
C6_StationaryFixedPoint ==
    [][ ( /\ call.op = "step_action_stationary" /\ ret.kind = "none"
          /\ IsStep(call') /\ ~call'.hypothetical_step
          /\ SameControl(call, call') )
        => (state'.P_out = state.P_out /\ state'.E_in = state.E_in)
      ]_vars

\* C7: one call of the stationary solver with the default budget performs
\* at most 101 control steps (loop iterations plus the final step).
C7_StationaryStepBound ==
    (call.op = "step_action_stationary" /\ call.max_iterations = DefaultMaxIterations)
        => obs.steps <= DefaultMaxIterations + 1

\* C8: a step requested with a control type other than "target" raises and
\* leaves self.state unchanged.
C8_OtherControlTypeRaises ==
    [][ (call'.op = "step_action" /\ call'.contr_type # "target") =>
          /\ ret'.kind = "raise"
          /\ state' = state
      ]_vars
\* such a step was requested of a component that has left its initial state
C8_Witness ==
    /\ call.op = "step_action" /\ call.contr_type # "target"
    /\ ret.kind = "raise"
    /\ state # constructed

\* C9: a step with a control value above contr_lim_max produces the state
\* of a step with contr_lim_max, a value below contr_lim_min that of a step
\* with contr_lim_min, neither raises, and the relative-power target handed
\* to the ramp calculator lies in [0, 1].
Produced(hypothetical_step, st, r) == IF hypothetical_step THEN r.val ELSE st
C9_Clamping ==
    [][ IsStep(call') =>
          /\ ret'.kind # "raise"
          /\ RGt(call'.contr_val, call'.contr_lim_max) =>
                Produced(call'.hypothetical_step, state', ret') =
                    state_1_of(par, ts, state, call'.contr_lim_max,
                               call'.contr_lim_min, call'.contr_lim_max)
          /\ RLt(call'.contr_val, call'.contr_lim_min) =>
                Produced(call'.hypothetical_step, state', ret') =
                    state_1_of(par, ts, state, call'.contr_lim_min,
                               call'.contr_lim_min, call'.contr_lim_max)
          /\ RLe(Zero, obs'.P_out_targ_rel) /\ RLe(obs'.P_out_targ_rel, One)
      ]_vars
\* a committed step with a value above the limit that brought the component
\* into load operation
C9_Witness ==
    /\ IsStep(call) /\ ~call.hypothetical_step
    /\ RGt(call.contr_val, call.contr_lim_max)
    /\ obs.P_out_targ_rel = One
    /\ RGt(state.P_out, Zero)

\* C10: the inverse lookup raises exactly when P_in_mc is outside
\* [P_in_mc_min, P_in_mc_max], the forward lookup exactly when P_out is
\* outside [P_out_min, P_out_rated]; otherwise they return a value; neither
\* changes self.state.
C10_LookupGuards ==
    [][ /\ call'.op = "action_for_P_in_mc_target" =>
              /\ (ret'.kind = "raise") <=>
                   (RLt(call'.arg, par.P_in_mc_min) \/ RGt(call'.arg, par.P_in_mc_max))
              /\ ret'.kind \in {"raise", "value"}
              /\ state' = state
        /\ call'.op = "P_in_mc_from_P_out" =>
              /\ (ret'.kind = "raise") <=>
                   (RLt(call'.arg, par.P_out_min) \/ RGt(call'.arg, par.P_out_rated))
              /\ ret'.kind \in {"raise", "value"}
              /\ state' = state
      ]_vars
\* an inverse lookup at the upper end of the range, on a running component
C10_Witness ==
    /\ call.op = "action_for_P_in_mc_target"
    /\ call.arg = par.P_in_mc_max
    /\ ret.kind = "value"
    /\ RGt(state.P_out, Zero)

\* x is a sample point of the eta_mc curve, as an output power in kW
IsEtaMcSample(p, P_out) ==
    \E i \in 1..Len(p.eta_mc[1]) : P_out = RMul(p.eta_mc[1][i], p.P_out_rated)

\* C11: the inverse lookup inverts the forward lookup at the sample points of
\* the eta_mc curve: when the forward lookup was applied to P_out =
\* x_i * P_out_rated and the inverse lookup is applied next to the P_in_mc it
\* returned, the inverse lookup returns the relative output power x_i.
C11_InverseInvertsForward ==
    [][ ( /\ call.op = "P_in_mc_from_P_out" /\ ret.kind = "value"
          /\ IsEtaMcSample(par, call.arg)
          /\ call'.op = "action_for_P_in_mc_target" /\ call'.arg = ret.val )
        => ( /\ ret'.kind = "value"
             /\ ret'.val = RDiv(call.arg, par.P_out_rated) )
      ]_vars

(***************************************************************************)
(* Cold start under a constant control                                     *)
(***************************************************************************)
\* components that differ in the startup time and the minimum load and ramp
\* up by 100 % of the rated power per minute; the timestep of one minute
\* divides every startup time
RawStart(name, t_start, P_out_min_rel) ==
    [ RawA EXCEPT !.name = name, !.t_start = t_start, !.P_out_min_rel = P_out_min_rel,
                  !.p_change_pos = R(100, 1) ]
StartParSet ==
    { ECCParameter(RawStart("S5", R(5, 1), R(3, 20))),
      ECCParameter(RawStart("S4", R(4, 1), R(1, 5))),
      ECCParameter(RawStart("S6", R(6, 1), R(1, 5))) }
\* constant targets at or above the minimum load of every component
StartTargets == {R(1, 5), R(1, 2), One}

InitStart ==
    /\ par \in StartParSet
    /\ ts \in TsSet
    /\ arg_state = ECCState0
    /\ state_initial = arg_state
    /\ state = arg_state
    /\ aliased = TRUE
    /\ constructed = arg_state
    /\ call = NoCall
    /\ ret = None
    /\ obs = NoObs
    /\ EscIdle
\* a step with the control value of the steps before it
ConstantStep ==
    \E v \in StartTargets, h \in BOOLEAN :
        /\ call.op = "__init__" \/ call.contr_val = v
        /\ step_action(v, h, "target", DefaultLims[1], DefaultLims[2])
SpecStart == InitStart /\ [][ConstantStep]_vars

\* C12: cold start -- under a constant control with a target at or above the
\* minimum load and a timestep that divides t_start, every committed step
\* taken below full heatup adds ts/t_start to heatup and ends with P_out = 0
\* as long as the sum is below 1, and the step that completes the sum to 1
\* ends with heatup = 1 and P_out = P_out_min; so heatup is k*ts/t_start
\* after k steps and load operation begins after exactly t_start/ts steps.
C12_ColdStart ==
    [][ (IsStep(call') /\ ~call'.hypothetical_step /\ RLt(state.heatup, One)) =>
          IF RLt(RAdd(state.heatup, RDiv(ts, par.t_start)), One)
          THEN /\ state'.heatup = RAdd(state.heatup, RDiv(ts, par.t_start))
               /\ state'.P_out = Zero
          ELSE /\ state'.heatup = One
               /\ state'.P_out = par.P_out_min
      ]_vars

(***************************************************************************)
(* Ramps in load operation with a control value off the 1e-6 grid          *)
(***************************************************************************)
\* a component with a constant efficiency and different ramp rates up and down
RawRamp ==
    [ RawA EXCEPT !.name = "R",
                  !.eta = << <<R(1, 5), One>>, <<R(1, 2), R(1, 2)>> >>,
                  !.p_change_neg = R(20, 1) ]
RampParSet == { ECCParameter(RawRamp) }
\* 4/15 has no finite decimal expansion
RampTargets == {R(1, 5), R(4, 15), One}

InitRamp ==
    /\ par \in RampParSet
    /\ ts \in TsSet
    /\ arg_state \in ConstructionStates(par, ts)
    /\ state_initial = arg_state
    /\ state = arg_state
    /\ aliased = TRUE
    /\ constructed = arg_state
    /\ call = NoCall
    /\ ret = None
    /\ obs = NoObs
    /\ EscIdle
RampStep == \E v \in RampTargets, h \in BOOLEAN :
                step_action(v, h, "target", DefaultLims[1], DefaultLims[2])
SpecRamp == InitRamp /\ [][RampStep]_vars

\* C13: ramp-rate bound -- for every control step that starts and ends in
\* load operation (heatup = 1 before and after), the output power changes by
\* at most max(p_change_pos, p_change_neg)/100 * P_out_rated * ts.
C13_RampRateBound ==
    [][ ( /\ IsStep(call')
          /\ state.heatup = One
          /\ Produced(call'.hypothetical_step, state', ret').heatup = One )
        => RLe(RAbs(RSub(Produced(call'.hypothetical_step, state', ret').P_out, state.P_out)),
               RMul(RMul(RDiv(RMax(par.p_change_pos, par.p_change_neg), R(100, 1)),
                         par.P_out_rated), ts))
      ]_vars

(***************************************************************************)
(* The efficiency interpolators of the parameter object, called directly   *)
(***************************************************************************)
\* a component whose sample tables are not uniformly spaced and cover only
\* a part of [0, 1]
RawInterp ==
    [ RawA EXCEPT !.name = "I",
                  !.eta = << <<R(3, 10), R(2, 5), R(9, 10)>>,
                             <<R(1, 2), R(4, 5), R(3, 5)>> >>,
                  !.eta_mc = << <<R(1, 5), R(1, 2), R(3, 5), One>>,
                                <<R(7, 10), R(9, 10), R(4, 5), R(4, 5)>> >> ]
InterpParSet == ParSet \cup { ECCParameter(RawInterp) }
\* the lookups reach from 0 to InterpMax/InterpDiv in steps of 1/InterpDiv
InterpDiv == 20
InterpMax == 24
InterpVals == { R(k, InterpDiv) : k \in 0..InterpMax }

InitInterp ==
    /\ par \in InterpParSet
    /\ ts \in TsSet
    /\ arg_state = ECCState0
    /\ state_initial = arg_state
    /\ state = arg_state
    /\ aliased = TRUE
    /\ constructed = arg_state
    /\ call = NoCall
    /\ ret = None
    /\ obs = NoObs
    /\ EscIdle

\* self.par.eta_ip(x)
call_eta_ip(x) ==
    /\ call' = [NoCall EXCEPT !.op = "eta_ip", !.arg = x]
    /\ ret' = Value(eta_ip(par, x))
    /\ obs' = NoObs
    /\ UNCHANGED <<esc_vars, par, ts, state, state_initial, arg_state, aliased, constructed>>

\* self.par.eta_mc_ip(x)
call_eta_mc_ip(x) ==
    /\ call' = [NoCall EXCEPT !.op = "eta_mc_ip", !.arg = x]
    /\ ret' = Value(eta_mc_ip(par, x))
    /\ obs' = NoObs
    /\ UNCHANGED <<esc_vars, par, ts, state, state_initial, arg_state, aliased, constructed>>

EtaLookup == \E x \in InterpVals : call_eta_ip(x)
EtaMcLookup == \E x \in InterpVals : call_eta_mc_ip(x)
NextInterp == EtaLookup \/ EtaMcLookup
SpecInterp == InitInterp /\ [][NextInterp]_vars

\* what the claim says of a lookup of x in the table <<xs, ys>> that returned y
BoundaryExtrapolation(xs, ys, x, y) ==
    /\ RLt(x, xs[1]) => y = ys[1]
    /\ RGt(x, xs[Len(xs)]) => y = ys[Len(ys)]
    /\ \E i \in 1..Len(ys) : RLe(ys[i], y)
    /\ \E i \in 1..Len(ys) : RGe(ys[i], y)
    /\ \A i \in 1..(Len(xs) - 1) :
          (RLe(xs[i], x) /\ RLe(x, xs[i + 1])) =>
              y = RAdd(ys[i], RMul(RDiv(RSub(x, xs[i]), RSub(xs[i + 1], xs[i])),
                                   RSub(ys[i + 1], ys[i])))

\* C14: boundary extrapolation -- a lookup of eta or eta_mc below the lowest
\* sample returns the first sample's efficiency, above the highest sample
\* the last sample's efficiency, every result lies within [min(y), max(y)],
\* and between two samples the result is their linear interpolation.
C14_BoundaryExtrapolation ==
    /\ call.op = "eta_ip" =>
          (ret.kind = "value" /\ BoundaryExtrapolation(par.eta[1], par.eta[2], call.arg, ret.val))
    /\ call.op = "eta_mc_ip" =>
          (ret.kind = "value" /\ BoundaryExtrapolation(par.eta_mc[1], par.eta_mc[2], call.arg, ret.val))
\* a lookup below the lowest sample of a table whose first segment is not flat
C14_Witness ==
    /\ call.op = "eta_ip"
    /\ RLt(call.arg, par.eta[1][1])
    /\ par.eta[2][1] # par.eta[2][2]
    /\ ret.kind = "value"

(***************************************************************************)
(* The storage components: construction, apply_control, reset_state        *)
(***************************************************************************)
\* the conversion component while only the storage components are used
EccIdle ==
    /\ par = ECCParameter(RawA)
    /\ ts \in TsSet
    /\ arg_state = ECCState0
    /\ state_initial = arg_state
    /\ state = arg_state
    /\ aliased = TRUE
    /\ constructed = arg_state
    /\ call = NoCall
    /\ ret = None
    /\ obs = NoObs

\* both components constructed with equal parameters and the same initial
\* state; component 2 is given the parameter object o2
InitEsc(o2) ==
    \E cap \in EscCaps, a \in BOOLEAN, soc \in EscSoCs :
        EscConstructed([o \in ParObjs |-> ESCParameter(EscEta, cap, a)], o2,
                       [ESCState0 EXCEPT !.SoC = soc])
\* each component has a parameter object of its own
InitStorage == EccIdle /\ InitEsc(2)
\* the components may have been given the same parameter object
InitShared == EccIdle /\ \E o2 \in ParObjs : InitEsc(o2)

apply_control(i, E_req) ==
    LET o == esc[i].par
        r == apply_control_result(esc_par[o], esc[i].ts, esc[i].state, E_req)
    IN  /\ RLe(esc_par[o].E_cap, R(MaxCap, 1))
        /\ esc_par' = [esc_par EXCEPT ![o].E_cap = r.E_cap]
        /\ esc' = [esc EXCEPT ![i].state = r.state]
        /\ esc_call' = [EscNoCall EXCEPT !.op = "apply_control", !.inst = i,
                                         !.E_req = E_req]
        /\ esc_ret' = r.ret
        /\ UNCHANGED <<esc_constructed, ecc_vars>>

reset_state(i, reset_capacity) ==
    LET o == esc[i].par
    IN  /\ esc' = [esc EXCEPT ![i].state = esc_state_after_reset(esc[i].state_initial)]
        /\ esc_par' = [esc_par EXCEPT ![o].E_cap =
                          esc_E_cap_after_reset(esc_par[o].E_cap, reset_capacity)]
        /\ esc_call' = [EscNoCall EXCEPT !.op = "reset_state", !.inst = i,
                                         !.reset_capacity = reset_capacity]
        /\ esc_ret' = None
        /\ UNCHANGED <<esc_constructed, ecc_vars>>

ApplyControl(i) == \E E_req \in EscReqs : apply_control(i, E_req)
ResetState(i) == \E rc \in BOOLEAN : reset_state(i, rc)

\* one storage component, apply_control only
SpecCharge == InitStorage /\ [][ApplyControl(1)]_vars
\* one storage component
NextStorage == ApplyControl(1) \/ ResetState(1)
SpecStorage == InitStorage /\ [][NextStorage]_vars
\* two storage components, of which the first is operated
SpecShared == InitShared /\ [][NextStorage]_vars

\* the parameter object of component i
EscPar(i) == esc_par[esc[i].par]
\* the stored energy that a charge E_req of component i leads to
ChargedTo(i, E_req) ==
    RAdd(RMul(esc[i].state.SoC, EscPar(i).E_cap), RMul(EscPar(i).eta, E_req))

\* C15: auto-increase on charge -- with autoIncrease enabled, a charge
\* E_req > 0 whose result SoC_0*E_cap + eta*E_req exceeds E_cap grows
\* par.E_cap by exactly the excess, leaves SoC = 1 and adds exactly the
\* excess to E_cap_incr; with eta = 0.8, E_cap = 1, SoC = 1 and E_req = 2,
\* E_cap becomes 2.6, E_cap_incr 1.6 and SoC 1.
C15_AutoIncreaseOnCharge ==
    [][ ( /\ esc_call'.op = "apply_control" /\ esc_call'.inst = 1
          /\ EscPar(1).autoIncrease
          /\ RGt(esc_call'.E_req, Zero)
          /\ RGt(ChargedTo(1, esc_call'.E_req), EscPar(1).E_cap) )
        => ( /\ esc_ret' = None
             /\ EscPar(1)'.E_cap = ChargedTo(1, esc_call'.E_req)
             /\ esc'[1].state.SoC = One
             /\ esc'[1].state.E_cap_incr =
                   RAdd(esc[1].state.E_cap_incr,
                        RSub(ChargedTo(1, esc_call'.E_req), EscPar(1).E_cap))
             /\ ( /\ EscPar(1).eta = R(4, 5) /\ EscPar(1).E_cap = One
                  /\ esc[1].state.SoC = One /\ esc[1].state.E_cap_incr = Zero
                  /\ esc_call'.E_req = R(2, 1) )
                => ( /\ EscPar(1)'.E_cap = R(26, 10)
                     /\ esc'[1].state.E_cap_incr = R(16, 10) ) )
      ]_vars
\* the stated scenario has happened
C15_Witness ==
    /\ esc_call.op = "apply_control" /\ esc_call.E_req = R(2, 1)
    /\ esc_constructed[1].E_cap = One /\ esc_constructed[1].state.SoC = One
    /\ EscPar(1).autoIncrease
    /\ EscPar(1).E_cap = R(26, 10)
    /\ esc[1].state.E_cap_incr = R(16, 10)
    /\ esc[1].state.SoC = One

\* C16: capacity growth is tracked cumulatively -- with autoIncrease enabled,
\* after any sequence of apply_control calls since construction,
\* state.E_cap_incr equals the current par.E_cap minus the capacity at
\* construction (the sum of all increments made so far); a call that stays
\* within [0, E_cap] therefore leaves E_cap_incr at its previous value.
C16_CumulativeGrowth ==
    EscPar(1).autoIncrease =>
        esc[1].state.E_cap_incr = RSub(EscPar(1).E_cap, esc_constructed[1].E_cap)

\* the stored energy that the call E_req of component i leads to
StoredAfter(i, E_req) ==
    IF RLe(E_req, Zero)
    THEN RAdd(RMul(esc[i].state.SoC, EscPar(i).E_cap), E_req)
    ELSE ChargedTo(i, E_req)

\* C17: overflow without auto-increase -- with autoIncrease disabled, a call
\* whose resulting stored energy would be below 0 or above E_cap raises and
\* leaves self.state and par.E_cap as they were; a call whose result stays
\* within [0, E_cap] does not raise.
C17_OverflowWithoutAutoIncrease ==
    [][ ( /\ esc_call'.op = "apply_control" /\ esc_call'.inst = 1
          /\ ~EscPar(1).autoIncrease )
        => IF \/ RLt(StoredAfter(1, esc_call'.E_req), Zero)
              \/ RGt(StoredAfter(1, esc_call'.E_req), EscPar(1).E_cap)
           THEN /\ esc_ret'.kind = "raise"
                /\ esc'[1].state = esc[1].state
                /\ EscPar(1)'.E_cap = EscPar(1).E_cap
           ELSE esc_ret'.kind # "raise"
      ]_vars

\* C18: storage reset -- reset_state() restores self.state to the
\* construction-time snapshot; with reset_capacity=True par.E_cap is again
\* the capacity the component was constructed with, with reset_capacity=False
\* par.E_cap is left unchanged.
C18_StorageReset ==
    [][ (esc_call'.op = "reset_state" /\ esc_call'.inst = 1) =>
          /\ esc'[1].state = esc_constructed[1].state
          /\ EscPar(1)'.E_cap = IF esc_call'.reset_capacity
                                THEN esc_constructed[1].E_cap
                                ELSE EscPar(1).E_cap
      ]_vars

\* C20: components do not share mutable state -- an operation on one
\* component leaves the state and the capacity E_cap of every other
\* component unchanged, also when both were given the same parameter object.
C20_NoSharedMutableState ==
    [][ \A i \in Insts : \A j \in Insts \ {i} :
          (esc_call'.op # "__init__" /\ esc_call'.inst = i) =>
              /\ esc'[j].state = esc[j].state
              /\ EscPar(j)'.E_cap = EscPar(j).E_cap
      ]_vars

(***************************************************************************)
(* Range of heatup and P_out under control steps, from arbitrary start     *)
(* states within the range                                                 *)
(***************************************************************************)
\* heatup and output power (relative to P_out_rated) of the start states;
\* the combinations need not be ones a run of the component produces
RangeHeatups == {Zero, R(1, 2), One}
RangePowers == {Zero, R(1, 10), R(1, 2), One}
RangeStates(p) ==
    { [ECCState0 EXCEPT !.heatup = h, !.P_out = RMul(x, p.P_out_rated)] :
        h \in RangeHeatups, x \in RangePowers }

InitRange ==
    /\ par \in ParSet
    /\ ts \in TsSet
    /\ arg_state \in ConstructionStates(par, ts) \cup RangeStates(par)
    /\ state_initial = arg_state
    /\ state = arg_state
    /\ aliased = TRUE
    /\ constructed = arg_state
    /\ call = NoCall
    /\ ret = None
    /\ obs = NoObs
    /\ EscIdle
SpecRange == InitRange /\ [][CommitStep]_vars

InRange(p, st) ==
    /\ RLe(Zero, st.heatup) /\ RLe(st.heatup, One)
    /\ RLe(Zero, st.P_out) /\ RLe(st.P_out, p.P_out_rated)

\* C19: heatup range -- starting from any state with heatup in [0,1] and
\* 0 <= P_out <= P_out_rated, after any sequence of control steps with
\* arbitrary (clamped) control values every state of the component has
\* 0 <= heatup <= 1 and 0 <= P_out <= P_out_rated.
C19_HeatupRange == InRange(par, state)

\* a committed step with a control value above the upper limit, from a start
\* state that no run produces, has brought the component to full power
C19_Witness ==
    /\ call.op = "step_action"
    /\ RGt(call.contr_val, call.contr_lim_max)
    /\ constructed.heatup = R(1, 2) /\ constructed.P_out = par.P_out_rated
    /\ state.heatup = One /\ state.P_out = par.P_out_rated

(***************************************************************************)
(* Crossing the minimum load within one timestep                           *)
(***************************************************************************)
\* a component whose cooldown takes as long as its startup, so that a state
\* that cooled down for half a timestep restarts within half a timestep
RawCross == [ RawA EXCEPT !.name = "X", !.t_cooldown = R(4, 1) ]
CrossParSet == {ECCParameter(RawCross), ECCParameter(RawA)}

InitCross ==
    /\ par \in CrossParSet
    /\ ts \in TsSet
    /\ arg_state = ECCState0
    /\ state_initial = arg_state
    /\ state = arg_state
    /\ aliased = TRUE
    /\ constructed = arg_state
    /\ call = NoCall
    /\ ret = None
    /\ obs = NoObs
    /\ EscIdle
SpecCross == InitCross /\ [][CommitStep \/ HypotheticalStep]_vars

\* the ramp calculation of the step that call' and obs' describe
StepRamp == calc_P_change(par, ts, state, obs'.P_out_targ_rel)
\* the step ramps up from below the minimum load to a target at or above it
RampsUpAcross ==
    /\ IsStep(call')
    /\ RLt(P_out_rel_0_of(par, state), par.P_out_min_rel)
    /\ RGe(obs'.P_out_targ_rel, par.P_out_min_rel)
\* the step ramps down from the minimum load or above to a target below it
RampsDownAcross ==
    /\ IsStep(call')
    /\ RGe(P_out_rel_0_of(par, state), par.P_out_min_rel)
    /\ RLt(obs'.P_out_targ_rel, par.P_out_min_rel)

\* C21 as stated: the returned operation time of a ramp up across the
\* minimum load is ts - start_time also when that difference is 0.
C21_AsStated ==
    [][ RampsUpAcross =>
          LET P0 == P_out_rel_0_of(par, state)
              pmin == par.P_out_min_rel
              start_time == RMul(RDiv(RSub(pmin, P0), pmin), par.t_start)
          IN  RLe(start_time, ts) => StepRamp.operation_time = RSub(ts, start_time)
      ]_vars

\* C21: ramp up crossing into operation [S->O] -- with P0 below P_out_min_rel,
\* a target at or above it and start_time = (P_out_min_rel - P0)/P_out_min_rel
\* * t_start: if start_time <= ts then P_out_rel_1 = min(target, P_out_min_rel
\* + p_change_pos/100 * (ts - start_time)) and the returned t_op is
\* ts - start_time, except that for start_time = ts the 0 is returned as
\* 1e-5; otherwise t_op = 0 and P_out_rel_1 = P0 + ts/t_start * P_out_min_rel,
\* which is strictly below P_out_min_rel.
C21_RampUpCrossing ==
    [][ RampsUpAcross =>
          LET P0 == P_out_rel_0_of(par, state)
              pmin == par.P_out_min_rel
              start_time == RMul(RDiv(RSub(pmin, P0), pmin), par.t_start)
          IN  IF RLe(start_time, ts)
              THEN /\ StepRamp.operation_time =
                        IF start_time = ts THEN OpTimeEps ELSE RSub(ts, start_time)
                   /\ StepRamp.P_out_rel_1 =
                        RMin(obs'.P_out_targ_rel,
                             RAdd(pmin, RMul(RDiv(par.p_change_pos, Hundred),
                                             RSub(ts, start_time))))
              ELSE /\ StepRamp.operation_time = Zero
                   /\ StepRamp.P_out_rel_1 = RAdd(P0, RMul(RDiv(ts, par.t_start), pmin))
                   /\ RLt(StepRamp.P_out_rel_1, pmin)
      ]_vars

\* a committed step finished the startup after 0.5 min and ramped for the
\* remaining 0.5 min of the timestep, from the minimum load to 40 % load
C21_Witness ==
    /\ call.op = "step_action" /\ ~call.hypothetical_step
    /\ RGe(call.contr_val, R(2, 5))
    /\ par.t_cooldown = R(4, 1)
    /\ state.heatup = One
    /\ state.P_out = R(40, 1)
    /\ state.E_out = R(1, 4)

Let1(x, F(_)) == CHOOSE r \in {F(a) : a \in {x}} : TRUE
Let2(x, y, F(_, _)) == CHOOSE r \in {F(a, b) : a \in {x}, b \in {y}} : TRUE

Limb == 2^15
Pow2(k) == 2^k

Limbs(f(_)) == <<f(1), f(2), f(3), f(4), f(5), f(6), f(7), f(8)>>
\* limb i of a, 0 outside of the tuple
LimbAt(a, i) == IF i >= 1 /\ i <= 8 THEN a[i] ELSE 0
BZero == <<0, 0, 0, 0, 0, 0, 0, 0>>
\* the natural number n < 2^31
Big(n) == <<n % Limb, (n \div Limb) % Limb, n \div (Limb * Limb), 0, 0, 0, 0, 0>>
BIsZero(a) == a = BZero

RECURSIVE BAddFrom(_, _, _, _)
BAddFrom(a, b, i, c) ==
    IF i > 8 THEN <<>>
    ELSE <<(a[i] + b[i] + c) % Limb>> \o BAddFrom(a, b, i + 1, (a[i] + b[i] + c) \div Limb)
BAdd(x, y) == Let2(x, y, LAMBDA a, b : BAddFrom(a, b, 1, 0))

\* x - y for x >= y
RECURSIVE BSubFrom(_, _, _, _)
BSubFrom(a, b, i, c) ==
    IF i > 8 THEN <<>>
    ELSE <<(a[i] - b[i] - c + Limb) % Limb>>
           \o BSubFrom(a, b, i + 1, IF a[i] - b[i] - c < 0 THEN 1 ELSE 0)
BSub(x, y) == Let2(x, y, LAMBDA a, b : BSubFrom(a, b, 1, 0))

\* x * n for n < 2^15
RECURSIVE BMulSmallFrom(_, _, _, _)
BMulSmallFrom(a, k, i, c) ==
    IF i > 8 THEN <<>>
    ELSE <<(a[i] * k + c) % Limb>> \o BMulSmallFrom(a, k, i + 1, (a[i] * k + c) \div Limb)
BMulSmall(x, n) == Let2(x, n, LAMBDA a, k : BMulSmallFrom(a, k, 1, 0))

\* -1, 0, 1 for x < y, x = y, x > y
RECURSIVE BCmpFrom(_, _, _)
BCmpFrom(a, b, i) ==
    IF i = 0 THEN 0
    ELSE IF a[i] > b[i] THEN 1
    ELSE IF a[i] < b[i] THEN -1
    ELSE BCmpFrom(a, b, i - 1)
BCmp(x, y) == Let2(x, y, LAMBDA a, b : BCmpFrom(a, b, 8))

\* x * 2^n and x \div 2^n
BShl(x, n) ==
    Let2(x, n, LAMBDA a, k :
      Limbs(LAMBDA i : ((LimbAt(a, i - (k \div 15)) * Pow2(k % 15)) % Limb)
                         + (LimbAt(a, i - (k \div 15) - 1) \div Pow2(15 - (k % 15)))))
BShr(x, n) ==
    Let2(x, n, LAMBDA a, k :
      Limbs(LAMBDA i : (LimbAt(a, i + (k \div 15)) \div Pow2(k % 15))
                         + ((LimbAt(a, i + (k \div 15) + 1) % Pow2(k % 15))
                              * Pow2(15 - (k % 15)))))
\* bit n of x (bit 0 is the least significant), and x % 2^n = 0
BBit(x, n) == Let1(n, LAMBDA k : (LimbAt(x, (k \div 15) + 1) \div Pow2(k % 15)) % 2)
BLowZero(x, n) == Let2(x, n, LAMBDA a, k : BShl(BShr(a, k), k) = a)
BOdd(a) == BBit(a, 0) = 1

\* number of bits of x
RECURSIVE IntLen(_)
IntLen(n) == IF n = 0 THEN 0 ELSE 1 + IntLen(n \div 2)
RECURSIVE BLenFrom(_, _)
BLenFrom(a, i) ==
    IF i = 0 THEN 0
    ELSE IF a[i] # 0 THEN 15 * (i - 1) + IntLen(a[i])
    ELSE BLenFrom(a, i - 1)
BLen(x) == Let1(x, LAMBDA a : BLenFrom(a, 8))

\* x * y for y < 2^60
BMul(x, y) ==
    Let2(x, y, LAMBDA a, b :
      BAdd(BAdd(BMulSmall(a, b[1]), BShl(BMulSmall(a, b[2]), 15)),
           BAdd(BShl(BMulSmall(a, b[3]), 30), BShl(BMulSmall(a, b[4]), 45))))

\* the digit floor(r / d) of a long division in base 2^15, for a divisor d of
\* 60 bits and r < d * 2^15: the quotient of the leading limbs, at most
\* 2^15 - 1, is the digit or exceeds it by at most 2
BDivDigit(r, d) ==
    Let1(IF (r[5] * Limb + r[4]) \div d[4] > Limb - 1
         THEN Limb - 1 ELSE (r[5] * Limb + r[4]) \div d[4],
         LAMBDA q : IF BCmp(BMulSmall(d, q), r) <= 0 THEN q
                    ELSE IF BCmp(BMulSmall(d, q - 1), r) <= 0 THEN q - 1
                    ELSE q - 2)
\* one more quotient digit: qr = <<quotient, remainder>>
BDivStep(qr, d) ==
    Let1(BShl(qr[2], 15), LAMBDA r :
      Let1(BDivDigit(r, d), LAMBDA q :
        <<BAdd(BShl(qr[1], 15), Big(q)), BSub(r, BMulSmall(d, q))>>))
\* four more quotient digits
BDivSteps(qr, d) ==
    Let1(BDivStep(qr, d), LAMBDA s1 :
      Let1(BDivStep(s1, d), LAMBDA s2 :
        Let1(BDivStep(s2, d), LAMBDA s3 : BDivStep(s3, d))))

FZero == <<1, BZero, 0>>
\* the float nearest to s * (x + f) * 2^e, where 0 <= f < 1 and f > 0 iff
\* sticky; ties go to the even mantissa.  With sticky, x has 55 bits or more.
FRound(s, x, e, sticky) ==
    Let2(x, BLen(x), LAMBDA N, len :
      IF len = 0 THEN FZero
      ELSE IF len <= 53 THEN <<s, BShl(N, 53 - len), e - (53 - len)>>
      ELSE Let1(BShr(N, len - 53), LAMBDA q :
             Let1(IF /\ BBit(N, len - 54) = 1
                     /\ (sticky \/ ~BLowZero(N, len - 54) \/ BOdd(q))
                  THEN BAdd(q, Big(1)) ELSE q,
                  LAMBDA m : IF BLen(m) = 54 THEN <<s, BShr(m, 1), e + (len - 53) + 1>>
                             ELSE <<s, m, e + (len - 53)>>)))

\* int -> float
FInt(n) == FRound(IF n < 0 THEN -1 ELSE 1, Big(IF n < 0 THEN -n ELSE n), 0, FALSE)
FIsZero(x) == BIsZero(x[2])
FNeg(x) == Let1(x, LAMBDA a : IF FIsZero(a) THEN a ELSE <<-a[1], a[2], a[3]>>)

\* -1, 0, 1 for |x| < |y|, |x| = |y|, |x| > |y|
FCmpAbs(x, y) ==
    Let2(x, y, LAMBDA a, b :
      IF FIsZero(a) THEN (IF FIsZero(b) THEN 0 ELSE -1)
      ELSE IF FIsZero(b) THEN 1
      ELSE IF a[3] > b[3] THEN 1
      ELSE IF a[3] < b[3] THEN -1
      ELSE BCmp(a[2], b[2]))
FCmp(x, y) ==
    Let2(x, y, LAMBDA a, b :
      IF FIsZero(a) /\ FIsZero(b) THEN 0
      ELSE IF FIsZero(a) THEN -b[1]
      ELSE IF FIsZero(b) THEN a[1]
      ELSE IF a[1] # b[1] THEN a[1]
      ELSE a[1] * FCmpAbs(a, b))
FLt(x, y) == FCmp(x, y) < 0
FLe(x, y) == FCmp(x, y) <= 0
FGt(x, y) == FCmp(x, y) > 0
FGe(x, y) == FCmp(x, y) >= 0
FEq(x, y) == FCmp(x, y) = 0
\* min(x, y) and max(x, y) of Python: the first argument unless the second
\* is strictly smaller (larger)
FMin(x, y) == Let2(x, y, LAMBDA a, b : IF FLt(b, a) THEN b ELSE a)
FMax(x, y) == Let2(x, y, LAMBDA a, b : IF FGt(b, a) THEN b ELSE a)

\* a + b for |a| >= |b|, both nonzero; an operand that is more than 64 bits
\* below the other one does not change the rounded sum
FAddOrdered(a, b) ==
    IF a[3] - b[3] > 64 THEN a
    ELSE IF a[1] = b[1]
    THEN FRound(a[1], BAdd(BShl(a[2], a[3] - b[3]), b[2]), b[3], FALSE)
    ELSE FRound(a[1], BSub(BShl(a[2], a[3] - b[3]), b[2]), b[3], FALSE)
FAdd(x, y) ==
    Let2(x, y, LAMBDA a, b :
      IF FIsZero(a) THEN b
      ELSE IF FIsZero(b) THEN a
      ELSE IF FCmpAbs(a, b) >= 0 THEN FAddOrdered(a, b) ELSE FAddOrdered(b, a))
FSub(x, y) == FAdd(x, FNeg(y))
FMul(x, y) ==
    Let2(x, y, LAMBDA a, b :
      IF FIsZero(a) \/ FIsZero(b) THEN FZero
      ELSE FRound(a[1] * b[1], BMul(a[2], b[2]), a[3] + b[3], FALSE))
\* a / b for the mantissas N of a and D of b, shifted to 60 bits: 60 or 61
\* quotient bits and the remainder as sticky bit
FDivMantissas(a, b, N, D) ==
    Let1(BDivSteps(IF BCmp(N, D) >= 0 THEN <<Big(1), BSub(N, D)>> ELSE <<BZero, N>>, D),
         LAMBDA res : FRound(a[1] * b[1], res[1], a[3] - b[3] - 60, ~BIsZero(res[2])))
\* x / y for y # 0
FDiv(x, y) ==
    Let2(x, y, LAMBDA a, b :
      IF FIsZero(a) THEN FZero
      ELSE Let2(BShl(a[2], 7), BShl(b[2], 7), LAMBDA N, D : FDivMantissas(a, b, N, D)))

\* round(x, 6) of Python: the exact value of x is rounded to 6 decimals
\* (ties to even), and the decimal number to the nearest float
FRound6(x) ==
    Let1(x, LAMBDA a :
      IF FIsZero(a) \/ a[3] >= 0 THEN a
      ELSE IF -a[3] > 100 THEN FZero
      ELSE Let1(BMul(Big(1000000), a[2]), LAMBDA N :
             Let1(BShr(N, -a[3]), LAMBDA q :
               FDiv(FRound(a[1],
                           IF /\ BBit(N, -a[3] - 1) = 1
                              /\ (~BLowZero(N, -a[3] - 1) \/ BOdd(q))
                           THEN BAdd(q, Big(1)) ELSE q, 0, FALSE),
                    FInt(1000000)))))

\* the float of a decimal literal or int, given as the rational <<n, d>>
FloatOf(r) == FDiv(FInt(r[1]), FInt(r[2]))

\* the virtual relative output power of the previous state
P_out_rel_0_float(p, pmin, heatup, P_out) ==
    IF FLt(heatup, FInt(1))
    THEN FRound6(FMul(heatup, pmin))
    ELSE FRound6(FDiv(P_out, FloatOf(p.P_out_rated)))

\* [S->O (potentially)] for the start time start_time
ramp_up_crossing_float(p, t, pmin, P_out_rel_0, P_out_rel_targ, start_time) ==
    IF FLe(start_time, t)
    THEN <<FMin(P_out_rel_targ,
                FAdd(pmin, FMul(FDiv(FloatOf(p.p_change_pos), FInt(100)),
                                FSub(t, start_time)))),
           FSub(t, start_time)>>
    ELSE <<FMin(P_out_rel_targ,
                FAdd(P_out_rel_0, FMul(FDiv(t, FloatOf(p.t_start)), pmin))), FZero>>

\* [O->S (potentially)] for the unload time unload_time
ramp_down_crossing_float(p, t, pmin, P_out_rel_0, P_out_rel_targ, unload_time) ==
    IF FLt(unload_time, t)
    THEN <<FMax(P_out_rel_targ,
                FMul(pmin, FSub(FInt(1), FDiv(FSub(t, unload_time),
                                              FloatOf(p.t_cooldown))))),
           unload_time>>
    ELSE <<FMax(P_out_rel_targ,
                FSub(P_out_rel_0, FMul(FDiv(FloatOf(p.p_change_neg), FInt(100)), t))),
           t>>

\* the six branches: <<P_out_rel_1, operation_time>>
ramp_float(p, t, pmin, P_out_rel_0, P_out_rel_targ) ==
    IF FLe(P_out_rel_0, P_out_rel_targ)
    THEN IF FLt(P_out_rel_targ, pmin)
         THEN \* [S->S]
              <<FMin(P_out_rel_targ,
                     FAdd(P_out_rel_0, FMul(FDiv(t, FloatOf(p.t_start)), pmin))), FZero>>
         ELSE IF FLt(P_out_rel_0, pmin)
         THEN Let1(FMul(FDiv(FSub(pmin, P_out_rel_0), pmin), FloatOf(p.t_start)),
                   LAMBDA start_time :
                     ramp_up_crossing_float(p, t, pmin, P_out_rel_0, P_out_rel_targ,
                                            start_time))
         ELSE \* [O->O]
              <<FMin(P_out_rel_targ,
                     FAdd(P_out_rel_0, FMul(FDiv(FloatOf(p.p_change_pos), FInt(100)), t))),
                t>>
    ELSE IF FGe(P_out_rel_targ, pmin)
         THEN \* [O->O]
              <<FMax(P_out_rel_targ,
                     FSub(P_out_rel_0, FMul(FDiv(FloatOf(p.p_change_neg), FInt(100)), t))),
                t>>
         ELSE IF FGe(P_out_rel_0, pmin)
         THEN Let1(FDiv(FSub(P_out_rel_0, pmin), FDiv(FloatOf(p.p_change_neg), FInt(100))),
                   LAMBDA unload_time :
                     ramp_down_crossing_float(p, t, pmin, P_out_rel_0, P_out_rel_targ,
                                              unload_time))
         ELSE \* [S->S]
              <<FMax(P_out_rel_targ,
                     FSub(P_out_rel_0, FMul(FDiv(pmin, FloatOf(p.t_cooldown)), t))),
                FZero>>

\* heatup = min(1, P_out_rel_1 / P_out_min_rel), and the operation time with
\* the replacement of a computed 0 when heatup = 1
P_change_result_float(P_out_rel_1, heatup, operation_time) ==
    [ P_out_rel_1 |-> P_out_rel_1,
      heatup |-> heatup,
      operation_time |-> IF FEq(heatup, FInt(1)) /\ FIsZero(operation_time)
                         THEN FloatOf(OpTimeEps) ELSE operation_time ]

\* _calc_P_change on floats, every operation rounded as Python rounds it:
\* p is self.par, ts_r is self.ts, heatup and P_out are the fields of
\* self.state
calc_P_change_float(p, ts_r, heatup, P_out, P_out_rel_targ) ==
    Let2(FloatOf(p.P_out_min_rel), FloatOf(ts_r), LAMBDA pmin, t :
      Let2(P_out_rel_0_float(p, pmin, heatup, P_out), P_out_rel_targ,
           LAMBDA P_out_rel_0, targ :
             Let1(ramp_float(p, t, pmin, P_out_rel_0, targ), LAMBDA r :
               Let1(FMin(FInt(1), FDiv(r[1], pmin)), LAMBDA heatup_1 :
                 P_change_result_float(r[1], heatup_1, r[2])))))

\* components with a minimum load of 10 and 20 % and unloading rates of 40
\* and 50 % of the rated power per minute
RawFloat(P_out_min_rel, p_change_neg) ==
    [ RawA EXCEPT !.name = "F", !.P_out_min_rel = P_out_min_rel,
                  !.p_change_neg = p_change_neg ]
FloatParSet ==
    { ECCParameter(RawFloat(m, n)) :
        m \in {R(1, 10), R(1, 5)}, n \in {R(40, 1), R(50, 1)} }
\* relative loads held in load operation, and heatup levels of a cold start
FloatLoads == {R(3, 10), R(1, 2), R(3, 5), R(7, 10), R(4, 5), One}
FloatHeatups == {Zero, R(1, 4), R(1, 2), R(3, 4)}
FloatStates(p) ==
    { [ECCState0 EXCEPT !.heatup = One, !.P_out = RMul(x, p.P_out_rated)] :
        x \in FloatLoads \cup {p.P_out_min_rel} }
      \cup { [ECCState0 EXCEPT !.heatup = h] : h \in FloatHeatups }

InitFloat ==
    /\ par \in FloatParSet
    /\ ts \in TsSet
    /\ arg_state \in FloatStates(par)
    /\ state_initial = arg_state
    /\ state = arg_state
    /\ aliased = TRUE
    /\ constructed = arg_state
    /\ call = NoCall
    /\ ret = None
    /\ obs = NoObs
    /\ EscIdle

\* step_action calls _calc_P_change with the target of the step
calc_P_change_call ==
    /\ \E P_out_rel_targ \in Targets :
         /\ call' = [NoCall EXCEPT !.op = "_calc_P_change", !.arg = P_out_rel_targ]
         /\ ret' = Value(calc_P_change_float(par, ts, FloatOf(state.heatup),
                                             FloatOf(state.P_out),
                                             FloatOf(P_out_rel_targ)))
    /\ obs' = NoObs
    /\ UNCHANGED <<esc_vars, par, ts, state, state_initial, arg_state, aliased, constructed>>
SpecFloat == InitFloat /\ [][calc_P_change_call]_vars

\* C23: operation time -- the ramp calculator returns heatup_1 =
\* min(1, P_out_rel_1 / P_out_min_rel) and an operation time with
\* 0 <= t_op <= ts; whenever heatup_1 = 1 the returned t_op is strictly
\* positive, and whenever heatup_1 < 1 the returned t_op is strictly below ts
\* (so that neither the operation time nor the cooldown time ts - t_op by
\* which _calc_E_change divides is 0).
C23_OperationTime ==
    call.op = "_calc_P_change" =>
      /\ ret.val.heatup = FMin(FInt(1), FDiv(ret.val.P_out_rel_1, FloatOf(par.P_out_min_rel)))
      /\ FLe(FZero, ret.val.operation_time)
      /\ FLe(ret.val.operation_time, FloatOf(ts))
      /\ FEq(ret.val.heatup, FInt(1)) => FGt(ret.val.operation_time, FZero)
      /\ FLt(ret.val.heatup, FInt(1)) => FLt(ret.val.operation_time, FloatOf(ts))

(***************************************************************************)
(* Energy flows of the single regimes                                      *)
(***************************************************************************)
\* the state that the step described by call' and ret' computed
StepResult == Produced(call'.hypothetical_step, state', ret')
\* the step that call' describes computed a state
StepComputes == IsStep(call') /\ ret'.kind # "raise"
\* relative output power of a state in load operation
P_rel(st) == RDiv(st.P_out, par.P_out_rated)
\* input power of the operating point of st, without load-change adder
P_in_point(st) == RDiv(st.P_out, eta_ip(par, P_rel(st)))
\* increase of the load-change bulk energy from state st to state st1
E_loadchange_delta(st, st1) ==
    RSub(E_loadchange_ip(par, P_rel(st1)), E_loadchange_ip(par, P_rel(st)))

\* C24: load -> load energy input -- in every step whose previous and new
\* heatup are both 1, E_in = (P_out_prev/eta(P_rel_prev) + P_out_new /
\* eta(P_rel_new))/2 * ts/60 + max(0, E_loadchange(P_rel_new) -
\* E_loadchange(P_rel_prev)) and E_out = (P_out_prev + P_out_new)/2 * ts/60.
C24_LoadToLoad ==
    [][ (StepComputes /\ state.heatup = One /\ StepResult.heatup = One) =>
          /\ StepResult.E_in =
               RAdd(RMul(RDiv(RAdd(P_in_point(state), P_in_point(StepResult)), Two),
                         RDiv(ts, Sixty)),
                    RMax(Zero, E_loadchange_delta(state, StepResult)))
          /\ StepResult.E_out =
               RMul(RDiv(RAdd(state.P_out, StepResult.P_out), Two), RDiv(ts, Sixty))
      ]_vars

\* targets that include a partly held cooldown (17.5 % with a minimum load of 20 %)
RegimeTargets == {R(0, 1), R(7, 40), R(1, 5), R(2, 5), R(1, 1)}
InitRegime ==
    /\ par \in ParSet
    /\ ts \in TsSet
    /\ arg_state = ECCState0
    /\ state_initial = arg_state
    /\ state = arg_state
    /\ aliased = TRUE
    /\ constructed = arg_state
    /\ call = NoCall
    /\ ret = None
    /\ obs = NoObs
    /\ EscIdle
RegimeStep == \E v \in RegimeTargets, h \in BOOLEAN :
                  step_action(v, h, "target", DefaultLims[1], DefaultLims[2])
SpecRegime == InitRegime /\ [][RegimeStep]_vars

\* the no-load part of a step from load operation that ends below the
\* minimum load after the cooldown time t: the relative power that is
\* reached without input, the input that holds P_out_rel_1 above it, and
\* the loss
CoastFloor(t) ==
    RSub(par.P_out_min_rel,
         RMin(RMul(RDiv(par.P_out_min_rel, par.t_cooldown), t), par.P_out_min_rel))
HoldingInput(P_out_rel_1, t) ==
    IF RGt(P_out_rel_1, CoastFloor(t))
    THEN RMul(RDiv(RSub(P_out_rel_1, CoastFloor(t)),
                   RSub(par.P_out_min_rel, CoastFloor(t))),
              RMul(RDiv(t, par.t_cooldown), par.E_start))
    ELSE Zero
CooldownLoss(P_out_rel_1, t) ==
    RAdd(RMul(RMul(RDiv(t, par.t_cooldown), par.E_start), par.eta_start),
         RMul(HoldingInput(P_out_rel_1, t), RSub(One, par.eta_start)))
\* the trapezoid between the powers a and b over the time t [min]
Trapezoid(a, b, t) == RMul(RDiv(RAdd(a, b), Two), RDiv(t, Sixty))

C26_NoLoadToLoad ==
    [][ (StepComputes /\ RLt(state.heatup, One) /\ StepResult.heatup = One) =>
          LET t_op == StepRamp.operation_time
              dE == RSub(E_loadchange_ip(par, StepRamp.P_out_rel_1),
                         E_loadchange_ip(par, P_out_rel_0_of(par, state)))
          IN  /\ StepResult.E_in =
                   RAdd(RAdd(RMul(RSub(One, state.heatup), par.E_start),
                             Trapezoid(par.P_in_min, P_in_point(StepResult), t_op)),
                        RMax(Zero, dE))
              /\ StepResult.E_out = Trapezoid(par.P_out_min, StepResult.P_out, t_op)
      ]_vars

(***************************************************************************)
(* Cooldown from the minimum load with the control held at 0               *)
(***************************************************************************)
\* cooldown times [min] and timesteps [min]
CooldownTimes == {R(2, 1), R(3, 1), R(4, 1), R(6, 1), R(8, 1), R(12, 1)}
CooldownTs == {R(1, 1), R(2, 1)}
RawCooldown(t_cooldown) == [ RawA EXCEPT !.name = "C", !.t_cooldown = t_cooldown ]
\* the component was started and is held at the minimum load; ts divides
\* t_cooldown
InitCooldown ==
    /\ par \in { ECCParameter(RawCooldown(c)) : c \in CooldownTimes }
    /\ ts \in { t \in CooldownTs : RDiv(par.t_cooldown, t)[2] = 1 }
    /\ arg_state = steps_from(par, ts, ECCState0, par.P_out_min_rel, WarmSteps)
    /\ state_initial = arg_state
    /\ state = arg_state
    /\ aliased = TRUE
    /\ constructed = arg_state
    /\ call = NoCall
    /\ ret = None
    /\ obs = NoObs
    /\ EscIdle
CooldownStep == \E h \in BOOLEAN :
                    step_action(Zero, h, "target", DefaultLims[1], DefaultLims[2])
SpecCooldown == InitCooldown /\ [][CooldownStep]_vars

\* the energy and power flows of the state st are 0
NoFlows(st) ==
    \A f \in {"P_in", "E_in", "P_in_mc", "E_in_mc", "P_in_sd1", "E_in_sd1",
              "P_in_sd2", "E_in_sd2", "P_out", "E_out", "P_loss", "E_loss",
              "P_heat", "E_heat"} : st[f] = Zero

\* C27: cooldown time -- starting at the minimum load (heatup = 1, P_out =
\* P_out_min) with the control held at 0 and ts dividing t_cooldown, every
\* step lowers heatup by exactly ts/t_cooldown until it is 0 (so that 0 is
\* reached after t_cooldown/ts steps), P_out is 0 from the first step on,
\* and a step from heatup = 0 stays at heatup = 0 with all energy and power
\* flows equal to 0.
C27_Cooldown ==
    [][ StepComputes =>
          /\ StepResult.P_out = Zero
          /\ RGt(state.heatup, Zero) =>
               StepResult.heatup = RSub(state.heatup, RDiv(ts, par.t_cooldown))
          /\ state.heatup = Zero => (StepResult.heatup = Zero /\ NoFlows(StepResult))
      ]_vars

\* C28: regime consistency -- the state that a control step computes has,
\* with heatup < 1, P_out = 0 and P_in_mc = 0, and its E_in_mc has no no-load
\* contribution: it is 0, together with E_out, when the previous heatup was
\* below 1 as well, and the operating part before the cooldown otherwise;
\* with heatup = 1 it has P_out = P_out_rel_1 * P_out_rated >= P_out_min.
\* P_out is never strictly between 0 and P_out_min.
C28_RegimeConsistency ==
    [][ StepComputes =>
          /\ RLt(StepResult.heatup, One) =>
               /\ StepResult.P_out = Zero
               /\ StepResult.P_in_mc = Zero
               /\ RLt(state.heatup, One) =>
                    (StepResult.E_in_mc = Zero /\ StepResult.E_out = Zero)
               /\ state.heatup = One =>
                    StepResult.E_in_mc =
                      Trapezoid(state.P_in_mc, par.P_in_mc_min, StepRamp.operation_time)
          /\ StepResult.heatup = One =>
               /\ StepResult.P_out = RMul(StepRamp.P_out_rel_1, par.P_out_rated)
               /\ RGe(StepResult.P_out, par.P_out_min)
          /\ RLe(StepResult.heatup, One)
          /\ ~(RLt(Zero, StepResult.P_out) /\ RLt(StepResult.P_out, par.P_out_min))
      ]_vars
\* a committed step left load operation: the state is below the minimum
\* load with the main-conversion input of the operating part
C28_Witness ==
    /\ IsStep(call) /\ ~call.hypothetical_step
    /\ RLt(state.heatup, One)
    /\ RGt(state.E_in_mc, Zero)
    /\ state.P_in_mc = Zero
    /\ state.P_out = Zero

(***************************************************************************)
(* Constant control: the same control value in every step                  *)
(***************************************************************************)
\* a component whose startup takes 10^6 min, next to the components A and B
RawSlow == [ RawA EXCEPT !.name = "S", !.t_start = R(1000000, 1) ]
ConvergeParSet == ParSet \cup {ECCParameter(RawSlow)}
\* states reached by a run at full power or at the minimum load
ConvergeStates(p, t) ==
    { steps_from(p, t, ECCState0, v, k) : v \in {One, p.P_out_min_rel}, k \in {0, 2, WarmSteps} }
InitConverge ==
    /\ par \in ConvergeParSet
    /\ ts \in TsSet
    /\ arg_state \in ConvergeStates(par, ts)
    /\ state_initial = arg_state
    /\ state = arg_state
    /\ aliased = TRUE
    /\ constructed = arg_state
    /\ call = NoCall
    /\ ret = None
    /\ obs = NoObs
    /\ EscIdle
\* the caller chooses a control value with the first step and keeps it
ConstantControl ==
    \E v \in Targets :
        /\ call.op = "__init__" \/ call.contr_val = v
        /\ step_action(v, FALSE, "target", DefaultLims[1], DefaultLims[2])
\* the caller keeps stepping
SpecConverge == InitConverge /\ [][ConstantControl]_vars /\ WF_vars(ConstantControl)

\* the virtual relative power of the state st
VirtualPower(st) ==
    IF RLt(st.heatup, One) THEN RMul(st.heatup, par.P_out_min_rel)
    ELSE RDiv(st.P_out, par.P_out_rated)
\* the component is at the target of the control value of the last step
AtTarget ==
    /\ call.op = "step_action"
    /\ IF RGe(call.contr_val, par.P_out_min_rel)
       THEN state.heatup = One /\ state.P_out = RMul(call.contr_val, par.P_out_rated)
       ELSE state.heatup = RDiv(call.contr_val, par.P_out_min_rel) /\ state.P_out = Zero
\* C29: convergence under constant control -- when the same control value
\* v in [0, 1] is applied in every step, the virtual relative power after
\* each step lies between its previous value and v, and after finitely many
\* steps the component is at the target (P_out = v * P_out_rated with heatup
\* = 1 for v >= P_out_min_rel, heatup = v / P_out_min_rel with P_out = 0
\* otherwise) and stays there.
C29_Convergence ==
    /\ [][ IsStep(call') =>
             /\ RLe(RMin(VirtualPower(state), call'.contr_val), VirtualPower(state'))
             /\ RLe(VirtualPower(state'), RMax(VirtualPower(state), call'.contr_val))
         ]_vars
    /\ <>[]AtTarget

-----------------------------------------------------------------------------
\* Loss power at the end of a step in load operation (lines 728-741)

\* the step leaves the operating point as it found it: same output power,
\* and the input power of the previous step carried no load-change adder
Held == /\ state.heatup = One
        /\ state.P_out = StepResult.P_out
        /\ state.P_in = P_in_point(state)

\* C30: end-of-step loss power in load operation -- after every step that
\* ends with heatup = 1, P_loss = P_out/eta_1 - P_out and
\* P_heat = fact_P_heat_P_Loss * P_loss; when the operating point is held
\* over consecutive steps, E_loss = P_loss * ts/60.
C30_LossPower ==
    [][ StepComputes /\ StepResult.heatup = One =>
          /\ StepResult.P_loss = RSub(P_in_point(StepResult), StepResult.P_out)
          /\ StepResult.P_heat = RMul(par.fact_P_heat_P_Loss, StepResult.P_loss)
          /\ Held => StepResult.E_loss =
                       RMul(StepResult.P_loss, RDiv(ts, Sixty))
      ]_vars

====
